---- MODULE Spec2Model ----
(***************************************************************************)
(* A model of the VM-to-Symphony toolchain: the Translator (VM statements  *)
(* to symbolic assembly), the Assembler (symbolic assembly to binary       *)
(* words) and the Computer (the instruction-set simulator).                *)
(*                                                                         *)
(* Values are Python integers (unbounded), a binary word is the sequence   *)
(* of its characters (0 or 1, most significant first), the RAM is the      *)
(* finite map of its non-zero cells (every other cell holds 0).            *)
(***************************************************************************)
EXTENDS Integers, Sequences, FiniteSets, TLC

VARIABLES
  program,   \* Computer.program: index into Programs and, beyond them, into
             \* Units; 0 before the first load
  register,  \* Computer.register: <<A, B, C, D>>
  counter,   \* Computer.counter
  ram,       \* Computer.ram: the non-zero cells
  iters,     \* Computer.iters
  finished,  \* Computer.finished
  ret,       \* what the last call of step() gave: "True", "False", "raise", "none"
  pc,        \* where the caller is: "idle", or "run" inside run()'s loop
  frames,    \* history: the calls entered and not yet returned from
  done,      \* history: the call the last step returned from, or NoFrame
  last,      \* history: the last call returned from since load, or NoFrame
  ref,       \* history: the final state of the first run() that returned
  mark,      \* history: the counter and the memory when the code of a VM
             \* statement was last entered
  source,    \* Assembler: the instructions of the last assemble call
  binary,    \* Assembler: what that call left (error, words, varlookup, labelmap)
  listing,   \* what disassemble returned for the first word of binary
  trcounter, \* Translator.__counter
  current_function,  \* Translator.__current_function, "" for None
  vmsource,  \* Translator: the instructions of the last translate call
  asmins     \* Translator: what that call returned, and the error it raised

\* the Computer and its history, the Assembler, the Translator
computer == <<program, register, counter, ram, iters, finished, ret, pc, frames, done,
              last, ref, mark>>
assembler == <<source, binary, listing>>
translator == <<trcounter, current_function, vmsource, asmins>>

vars == <<computer, assembler, translator>>

(***************************************************************************)
(* Computer: constants                                                     *)
(***************************************************************************)
RAM_REGISTER == 0
RAM_SIZE == 24576
MAX_ITERS == 16384
STATIC == 16
STACK == 256
OUTPUT == 20487

(***************************************************************************)
(* Python integer arithmetic                                               *)
(***************************************************************************)
\* ~x
Invert(x) == -x - 1

\* a & b on two's-complement integers of unbounded width
RECURSIVE BitAnd(_, _)
BitAnd(a, b) ==
  IF a = 0 \/ b = 0 THEN 0
  ELSE IF a = -1 THEN b
  ELSE IF b = -1 THEN a
  ELSE (a % 2) * (b % 2) + 2 * BitAnd(a \div 2, b \div 2)

\* a | b
BitOr(a, b) == Invert(BitAnd(Invert(a), Invert(b)))

\* a ^ b
BitXor(a, b) == BitAnd(BitOr(a, b), Invert(BitAnd(a, b)))

\* a // b for b # 0
FloorDiv(a, b) == IF b > 0 THEN a \div b ELSE (-a) \div (-b)

\* a % b for b # 0 (the sign of the divisor)
PyMod(a, b) == a - b * FloorDiv(a, b)

\* int(s, 2) of a sequence of binary digits: the value of its first n digits
RECURSIVE Int2Upto(_, _)
Int2Upto(s, n) == IF n = 0 THEN 0 ELSE 2 * Int2Upto(s, n - 1) + s[n]

Int2(s) == Int2Upto(s, Len(s))

(***************************************************************************)
(* Loops over a sequence.  A loop is cut in halves so that the evaluation  *)
(* nests to the logarithm of its length; the elements are visited in       *)
(* order, first to last, as the for statement visits them.                 *)
(***************************************************************************)
\* F(e), with e evaluated once, before F is: a bound variable holds a value
With(F(_), e) == CHOOSE r \in {F(v) : v \in {e}} : TRUE

\* for x in seq[lo..hi]: st = Body(x, st)
RECURSIVE ForEach(_, _, _, _, _)
ForEach(Body(_, _), seq, lo, hi, st) ==
  IF lo > hi THEN st
  ELSE IF lo = hi THEN Body(seq[lo], st)
  ELSE With(LAMBDA half : ForEach(Body, seq, (lo + hi) \div 2 + 1, hi, half),
            ForEach(Body, seq, lo, (lo + hi) \div 2, st))

\* the concatenation of Item(x) for x in seq[lo..hi]
RECURSIVE Concat(_, _, _, _)
Concat(Item(_), seq, lo, hi) ==
  IF lo > hi THEN <<>>
  ELSE IF lo = hi THEN Item(seq[lo])
  ELSE Concat(Item, seq, lo, (lo + hi) \div 2)
       \o Concat(Item, seq, (lo + hi) \div 2 + 1, hi)

\* the sum of Item(x) for x in seq[lo..hi]
RECURSIVE Sum(_, _, _, _)
Sum(Item(_), seq, lo, hi) ==
  IF lo > hi THEN 0
  ELSE IF lo = hi THEN Item(seq[lo])
  ELSE Sum(Item, seq, lo, (lo + hi) \div 2) + Sum(Item, seq, (lo + hi) \div 2 + 1, hi)

(***************************************************************************)
(* Computer: memory and registers                                          *)
(***************************************************************************)
\* the cell at list index a, a already in 0 .. RAM_SIZE-1
Cell(mem, a) == IF a \in DOMAIN mem THEN mem[a] ELSE 0

\* a Python list index: a negative index counts from the end
ListIndex(a) == IF a < 0 THEN a + RAM_SIZE ELSE a

\* self.ram[a] raises IndexError outside this range
InRam(a) == a >= -RAM_SIZE /\ a < RAM_SIZE

\* self.ram[a] = v
Store(mem, a, v) ==
  IF ListIndex(a) \in DOMAIN mem
  THEN IF v = 0 THEN [x \in DOMAIN mem \ {ListIndex(a)} |-> mem[x]]
       ELSE [mem EXCEPT ![ListIndex(a)] = v]
  ELSE IF v = 0 THEN mem
       ELSE mem @@ (ListIndex(a) :> v)

\* __getval raises (IndexError) for selector 6 and for M with A out of range
GetvalOk(src, reg, mem) ==
  IF src \in {4, 5} THEN TRUE
  ELSE IF src = 7 THEN InRam(reg[RAM_REGISTER + 1])
  ELSE src < 4

Getval(src, reg, mem) ==
  IF src = 4 THEN 0
  ELSE IF src = 5 THEN 1
  ELSE IF src = 7 THEN Cell(mem, ListIndex(reg[RAM_REGISTER + 1]))
  ELSE reg[src + 1]

\* f'{dst:05b}': the five mask characters of dst, A first, M last
MaskBits(dst) ==
  <<(dst \div 16) % 2, (dst \div 8) % 2, (dst \div 4) % 2, (dst \div 2) % 2, dst % 2>>

\* __setval raises (IndexError) when M is selected and A is out of range
SetvalOk(dst, reg) == MaskBits(dst)[5] = 1 => InRam(reg[RAM_REGISTER + 1])

\* a __setval that writes the registers first: the cell is the one the new A
\* addresses
SetvalRamAfterRegisters(dst, val, reg, mem) ==
  IF MaskBits(dst)[5] = 1
  THEN Store(mem, IF MaskBits(dst)[1] = 1 THEN val ELSE reg[RAM_REGISTER + 1], val)
  ELSE mem

\* __setval: the memory cell first, addressed by A as it is, then the registers
SetvalRam(dst, val, reg, mem) ==
  IF MaskBits(dst)[5] = 1 THEN Store(mem, reg[RAM_REGISTER + 1], val) ELSE mem

SetvalReg(dst, val, reg) ==
  [i \in 1..4 |-> IF MaskBits(dst)[i] = 1 THEN val ELSE reg[i]]

(***************************************************************************)
(* Computer: decode and execute                                            *)
(***************************************************************************)
\* __decode: (type, mode, arg1, arg2, res)
Decode(instruction) ==
  [type |-> Int2(SubSeq(instruction, 1, 1)),
   mode |-> Int2(SubSeq(instruction, 2, 5)),
   arg1 |-> Int2(SubSeq(instruction, 6, 8)),
   arg2 |-> Int2(SubSeq(instruction, 9, 11)),
   res  |-> Int2(SubSeq(instruction, 12, Len(instruction)))]

\* the keys of __MODES
MODES == {1, 2, 3, 4, 8, 9, 10, 11, 12, 13, 14, 15}
UNARY == {1, 8, 9}

\* the keys of __COMPARISONS
COMPARISONS == {1, 2, 3, 5, 6, 7}

\* __cmp raises RuntimeError for any other op
CmpOk(op) == op = 0 \/ op = 4 \/ op \in COMPARISONS

Cmp(a, b, op) ==
  CASE op = 0 -> FALSE
    [] op = 4 -> TRUE
    [] op = 1 -> a = b
    [] op = 2 -> a < b
    [] op = 3 -> a <= b
    [] op = 5 -> a # b
    [] op = 6 -> a >= b
    [] op = 7 -> a > b

\* the value an operation computes from two values
Operate(mode, a, b) ==
  CASE mode = 1  -> Invert(a)
    [] mode = 2  -> BitAnd(a, b)
    [] mode = 3  -> BitOr(a, b)
    [] mode = 4  -> BitXor(a, b)
    [] mode = 8  -> a
    [] mode = 9  -> -a
    [] mode = 10 -> a + b
    [] mode = 11 -> a - b
    [] mode = 12 -> a * b
    [] mode = 13 -> FloorDiv(a, b)
    [] mode = 14 -> PyMod(a, b)

\* the value an operation computes from its operands
Compute(mode, arg1, arg2, reg, mem) ==
  Operate(mode, Getval(arg1, reg, mem),
          IF mode \in UNARY THEN 0 ELSE Getval(arg2, reg, mem))

\* a __jmp that goes to the value of its first operand
JumpOperand(arg1) == arg1

\* the register the jump target is read from: __jmp returns __getval(0)
JumpSource(arg1) == 0

\* __jmp: the instruction to go to, or -1
Jmp(arg1, arg2, res, reg, mem) ==
  IF Cmp(Getval(arg1, reg, mem), Getval(arg2, reg, mem), res)
  THEN Getval(JumpSource(arg1), reg, mem)
  ELSE -1

\* the comparison code __jmp hands to __cmp: the whole res field of __decode
CmpCode(res) == res

\* whether executing the instruction raises; d is its decoding
Raises(instruction, d, reg, mem) ==
  IF Len(instruction) < 12 THEN TRUE
  ELSE IF d.type = 0 THEN FALSE
  ELSE IF d.mode \notin MODES THEN TRUE
  ELSE IF ~GetvalOk(d.arg1, reg, mem) THEN TRUE
  ELSE IF d.mode \in UNARY THEN ~SetvalOk(d.res, reg)
  ELSE IF ~GetvalOk(d.arg2, reg, mem) THEN TRUE
  ELSE IF d.mode = 15 THEN ~CmpOk(CmpCode(d.res))
  ELSE IF d.mode \in {13, 14} /\ Getval(d.arg2, reg, mem) = 0 THEN TRUE
  ELSE ~SetvalOk(d.res, reg)

\* the effect of an instruction that does not raise: registers, memory, jump
Execute(instruction, d, reg, mem) ==
  IF d.type = 0
  THEN [register |-> [reg EXCEPT ![1] = Int2(instruction)], ram |-> mem, jump |-> -1]
  ELSE IF d.mode = 15
  THEN [register |-> reg, ram |-> mem,
        jump |-> Jmp(d.arg1, d.arg2, CmpCode(d.res), reg, mem)]
  ELSE [register |-> SetvalReg(d.res, Compute(d.mode, d.arg1, d.arg2, reg, mem), reg),
        ram |-> SetvalRam(d.res, Compute(d.mode, d.arg1, d.arg2, reg, mem), reg, mem),
        jump |-> -1]

(***************************************************************************)
(* Assembler.  A line of symbolic assembly is the sequence of its tokens:  *)
(* <<"#", text>> a comment, <<"@n", 256>> and <<"@", "SP">> immediates,    *)
(* <<"(", name, ")">> a label, <<"GOTO", name>>, <<"JUMP">>,               *)
(* <<"D", "!=", "0", "?", name>> a conditional, and the register           *)
(* statements <<"A", "M", "=", "M", "+", "1">>.                            *)
(***************************************************************************)
\* reset: self.varlookup
PredefinedVars ==
  "R0" :> 0 @@ "R1" :> 1 @@ "R2" :> 2 @@ "R3" :> 3 @@
  "R4" :> 4 @@ "R5" :> 5 @@ "R6" :> 6 @@ "R7" :> 7 @@
  "R8" :> 8 @@ "R9" :> 9 @@ "R10" :> 10 @@ "R11" :> 11 @@
  "R12" :> 12 @@ "R13" :> 13 @@ "R14" :> 14 @@ "R15" :> 15 @@
  "SP" :> 0 @@ "LCL" :> 1 @@ "ARG" :> 2 @@ "THIS" :> 3 @@ "THAT" :> 4 @@
  "SCREEN" :> 16384 @@ "DISPLAY" :> 20481 @@ "KEYBOARD" :> 20480 @@
  "INPUT" :> 20486 @@ "OUTPUT" :> OUTPUT

\* reset: self.predefined_variables
predefined_variables == Cardinality(DOMAIN PredefinedVars)

\* reset: self.reg_map, keyed by the token
reg_map ==
  "A" :> <<0, 0, 0>> @@ "B" :> <<0, 0, 1>> @@ "C" :> <<0, 1, 0>> @@
  "D" :> <<0, 1, 1>> @@ "0" :> <<1, 0, 0>> @@ "1" :> <<1, 0, 1>> @@
  "M" :> <<1, 1, 1>>

\* reset: self.op_map, keyed by the operator's token (cpy, not, neg by name)
op_map ==
  "not" :> <<0, 0, 0, 1>> @@ "&" :> <<0, 0, 1, 0>> @@ "|" :> <<0, 0, 1, 1>> @@
  "^" :> <<0, 1, 0, 0>> @@ "cpy" :> <<1, 0, 0, 0>> @@ "neg" :> <<1, 0, 0, 1>> @@
  "+" :> <<1, 0, 1, 0>> @@ "-" :> <<1, 0, 1, 1>> @@ "*" :> <<1, 1, 0, 0>> @@
  "/" :> <<1, 1, 0, 1>> @@ "%" :> <<1, 1, 1, 0>> @@ "jmp" :> <<1, 1, 1, 1>>

\* reset: self.cmp_map, keyed by the comparison's token
cmp_map ==
  "=" :> <<0, 0, 1>> @@ "<" :> <<0, 1, 0>> @@ "<=" :> <<0, 1, 1>> @@
  "!=" :> <<1, 0, 1>> @@ ">=" :> <<1, 1, 0>> @@ ">" :> <<1, 1, 1>>

Registers == {"A", "B", "C", "D", "M"}
NonMemRegs == {"A", "B", "C", "D"}
Constants01 == {"0", "1"}
BinaryOps == {"&", "|", "^", "+", "-", "*", "/", "%"}

\* f'{v:0{width}b}': the binary digits of v, at least width of them
RECURSIVE Bin(_, _)
Bin(v, width) ==
  IF v < 2 /\ width <= 1 THEN <<v>>
  ELSE Append(Bin(v \div 2, width - 1), v % 2)

\* the position of the first "=" token of a register statement, 0 if none
RECURSIVE EqualsAt(_, _)
EqualsAt(line, i) ==
  IF i > Len(line) THEN 0
  ELSE IF line[i] = "=" THEN i
  ELSE EqualsAt(line, i + 1)

\* the grammar's expression alternative a line parses to ("comment" is ignored)
EType(line) ==
  LET e == EqualsAt(line, 1)
      rhs == SubSeq(line, e + 1, Len(line))
  IN
  CASE line[1] = "#" -> "comment"
    [] line[1] \in {"@n", "@"} /\ Len(line) = 2 -> "immediate"
    [] line[1] = "(" /\ Len(line) = 3 -> "label"
    [] line[1] \in {"GOTO", "goto"} /\ Len(line) = 2 -> "goto"
    [] line[1] \in {"JUMP", "jump"} /\ Len(line) = 1 -> "jump"
    [] Len(line) = 5 /\ line[4] = "?" /\ line[2] \in DOMAIN cmp_map
         /\ line[1] \in NonMemRegs \cup Constants01
         /\ line[3] \in NonMemRegs \cup Constants01
         /\ ~(line[1] \in Constants01 /\ line[3] \in Constants01) -> "conditional"
    [] e > 1 /\ (\A i \in 1..(e - 1) : line[i] \in Registers) /\ Len(rhs) = 1
         /\ rhs[1] \in Registers \cup Constants01 -> "copy"
    [] e > 1 /\ (\A i \in 1..(e - 1) : line[i] \in Registers) /\ Len(rhs) = 2
         /\ rhs[1] = "!" /\ rhs[2] \in Registers \cup Constants01 -> "negate"
    [] e > 1 /\ (\A i \in 1..(e - 1) : line[i] \in Registers) /\ Len(rhs) = 2
         /\ rhs[1] = "-" /\ rhs[2] \in Registers \cup Constants01 -> "negative"
    [] e > 1 /\ (\A i \in 1..(e - 1) : line[i] \in Registers) /\ Len(rhs) = 3
         /\ rhs[2] \in BinaryOps
         /\ rhs[1] \in Registers \cup Constants01
         /\ rhs[3] \in Registers \cup Constants01
         /\ ~(rhs[1] \in Constants01 /\ rhs[3] \in Constants01) -> "calculate"
    [] OTHER -> "syntax error"

\* __registers: the result mask of a register set
RegistersMask(dst) ==
  [i \in 1..5 |-> IF \E j \in 1..Len(dst) : dst[j] = <<"A", "B", "C", "D", "M">>[i]
                  THEN 1 ELSE 0]

\* reset: self.__MARKER
AsmMarker == "_____"

\* s.startswith(m), s.endswith(m)
StartsWith(s, m) == Len(s) >= Len(m) /\ SubSeq(s, 1, Len(m)) = m
EndsWith(s, m) == Len(s) >= Len(m) /\ SubSeq(s, Len(s) - Len(m) + 1, Len(s)) = m

\* s[i:].replace(m, ''): the occurrences of m taken out, left to right
RECURSIVE ReplaceFrom(_, _, _)
ReplaceFrom(s, m, i) ==
  IF i + Len(m) - 1 > Len(s) THEN SubSeq(s, i, Len(s))
  ELSE IF SubSeq(s, i, i + Len(m) - 1) = m THEN ReplaceFrom(s, m, i + Len(m))
  ELSE SubSeq(s, i, i) \o ReplaceFrom(s, m, i + 1)

\* instruction.replace(self.__MARKER, '')
Unmarked(text) == ReplaceFrom(text, AsmMarker, 1)

\* the entries of pre_instructions: a binary word, or the text that stands
\* for a label: the marker before the name where the label is defined, the
\* marker after the name where it is referred to
PreWord(w)  == [tag |-> "word", text |-> "", w |-> w]
PreDef(name) == [tag |-> "text", text |-> AsmMarker \o name, w |-> <<>>]
PreRef(name) == [tag |-> "text", text |-> name \o AsmMarker, w |-> <<>>]

\* instruction.startswith(self.__MARKER), instruction.endswith(self.__MARKER)
IsDef(instruction) == instruction.tag = "text" /\ StartsWith(instruction.text, AsmMarker)
IsRef(instruction) == instruction.tag = "text" /\ EndsWith(instruction.text, AsmMarker)

\* an allocation that counts the predefined names too
VarAddressPastTable(varlookup, x) ==
  IF x \in DOMAIN varlookup THEN varlookup[x]
  ELSE STATIC + Cardinality(DOMAIN varlookup)

\* __immediate, for a name x that is no label: the address, allocated on first sight
VarAddress(varlookup, x) ==
  IF x \in DOMAIN varlookup THEN varlookup[x]
  ELSE STATIC + Cardinality(DOMAIN varlookup) - predefined_variables

\* __immediate .. __jump: one statement lowered, given the label names
\* st = [varlookup, pre]
LowerStatement(line, labels, st) ==
  LET t == EType(line)
      e == EqualsAt(line, 1)
      res == RegistersMask(SubSeq(line, 1, e - 1))
      emit(seq) == [st EXCEPT !.pre = st.pre \o seq]
  IN
  CASE t = "immediate" ->
         IF line[1] = "@" /\ line[2] \in labels
         THEN emit(<<PreRef(line[2])>>)
         ELSE IF line[1] = "@n"
         THEN emit(<<PreWord(<<0>> \o Bin(line[2], 15))>>)
         ELSE [varlookup |-> (line[2] :> VarAddress(st.varlookup, line[2])) @@ st.varlookup,
               pre |-> Append(st.pre,
                         PreWord(<<0>> \o Bin(VarAddress(st.varlookup, line[2]), 15)))]
    [] t = "copy" ->
         emit(<<PreWord(<<1>> \o op_map["cpy"] \o reg_map[line[e + 1]] \o <<0, 0, 0>> \o res)>>)
    [] t = "negate" ->
         emit(<<PreWord(<<1>> \o op_map["not"] \o reg_map[line[e + 2]] \o <<0, 0, 0>> \o res)>>)
    [] t = "negative" ->
         emit(<<PreWord(<<1>> \o op_map["neg"] \o reg_map[line[e + 2]] \o <<0, 0, 0>> \o res)>>)
    [] t = "calculate" ->
         emit(<<PreWord(<<1>> \o op_map[line[e + 2]] \o reg_map[line[e + 1]]
                        \o reg_map[line[e + 3]] \o res)>>)
    [] t = "goto" ->
         emit(<<PreRef(line[2]), PreWord(<<1,1,1,1,1,0,0,0,0,0,0,0,0,1,0,0>>)>>)
    [] t = "conditional" ->
         emit(<<PreRef(line[5]),
                PreWord(<<1,1,1,1,1>> \o reg_map[line[1]] \o reg_map[line[3]]
                        \o <<0, 0>> \o cmp_map[line[2]])>>)
    [] t = "label" -> emit(<<PreDef(line[2])>>)
    [] t = "jump" -> emit(<<PreWord(<<1,1,1,1,1,0,0,0,0,0,0,0,0,1,0,0>>)>>)
    [] OTHER -> st

\* assemble, second loop: pre_instructions (and varlookup)
LowerAll(lines, labels, st) ==
  ForEach(LAMBDA line, s : LowerStatement(line, labels, s), lines, 1, Len(lines), st)

\* assemble, first loop: the label definitions in order
LabelDefs(lines) ==
  Concat(LAMBDA line : IF EType(line) = "label" THEN <<line[2]>> ELSE <<>>,
         lines, 1, Len(lines))

\* a test that finds a name repeated only where it follows itself
HasAdjacentDuplicate(names) ==
  \E i \in 1..Len(names) - 1 : names[i] = names[i + 1]

\* assemble, first loop: the label is already in labelmap
HasDuplicate(names) ==
  \E i, j \in 1..Len(names) : i < j /\ names[i] = names[j]

\* None
None == -1

\* assemble, first loop: labelmap, each label with None
Placeholders(names) == [x \in {names[i] : i \in 1..Len(names)} |-> None]

\* assemble, third loop: labelmap, each label's linenum
LabelMap(pre, names) ==
  ForEach(LAMBDA instruction, s :
            IF IsDef(instruction)
            THEN [s EXCEPT !.labelmap = (Unmarked(instruction.text) :> s.linenum) @@ @]
            ELSE [s EXCEPT !.linenum = @ + 1],
          pre, 1, Len(pre), [linenum |-> 0, labelmap |-> Placeholders(names)]).labelmap

\* assemble, fourth loop: what it raises at one entry of pre_instructions,
\* "" if nothing
BinaryError(instruction, labelmap) ==
  IF ~IsRef(instruction) THEN ""
  ELSE IF Unmarked(instruction.text) \notin DOMAIN labelmap THEN "not defined"
  ELSE IF labelmap[Unmarked(instruction.text)] = None THEN "TypeError"
  ELSE ""

\* assemble, fourth loop: the entries at which it would raise
BadEntries(pre, labelmap) ==
  {i \in 1..Len(pre) : BinaryError(pre[i], labelmap) # ""}

\* assemble, fourth loop: the first error raised, "" if none
BinaryErrors(pre, labelmap) ==
  IF BadEntries(pre, labelmap) = {} THEN ""
  ELSE BinaryError(pre[CHOOSE i \in BadEntries(pre, labelmap) :
                         \A j \in BadEntries(pre, labelmap) : i <= j], labelmap)

\* assemble, fourth loop: binary_instructions
Binary(pre, labelmap) ==
  Concat(LAMBDA instruction :
           IF IsRef(instruction)
           THEN <<<<0>> \o Bin(labelmap[Unmarked(instruction.text)], 15)>>
           ELSE IF ~IsDef(instruction) THEN <<instruction.w>>
           ELSE <<>>,
         pre, 1, Len(pre))

EmptyMap == [x \in {} |-> 0]

\* what assemble leaves when it raises err
Raised(err) == [err |-> err, out |-> <<>>, varlookup |-> EmptyMap, labelmap |-> EmptyMap]

\* assemble, from the second loop on; names are the labels of the first loop
Lowered(st, names) ==
  With(LAMBDA labelmap :
         IF BadEntries(st.pre, labelmap) # {}
         THEN Raised(BinaryErrors(st.pre, labelmap))
         ELSE [err |-> "", out |-> Binary(st.pre, labelmap),
               varlookup |-> st.varlookup, labelmap |-> labelmap],
       LabelMap(st.pre, names))

\* assemble: [err |-> "" or the error raised, out |-> the binary words]
assemble(instructions) ==
  IF \E i \in 1..Len(instructions) : EType(instructions[i]) = "syntax error"
  THEN Raised("syntax error")
  ELSE With(LAMBDA names :
              IF HasDuplicate(names) THEN Raised("already defined")
              ELSE With(LAMBDA st : Lowered(st, names),
                        LowerAll(instructions, {names[i] : i \in 1..Len(names)},
                                 [varlookup |-> PredefinedVars, pre |-> <<>>])),
            LabelDefs(instructions))

(***************************************************************************)
(* disassemble.  The line it returns is the sequence of its tokens, as the *)
(* lines of the assembly source are.                                       *)
(***************************************************************************)
\* disassemble: modes, keyed by the value of the four bits
modes ==
  1 :> "NOT" @@ 2 :> "AND" @@ 3 :> "OR" @@ 4 :> "XOR" @@ 8 :> "CPY" @@ 9 :> "NEG" @@
  10 :> "ADD" @@ 11 :> "SUB" @@ 12 :> "MUL" @@ 13 :> "DIV" @@ 14 :> "REM" @@ 15 :> "JMP"

\* an ops that takes the two constants for each other
opsSwapped ==
  0 :> "A" @@ 1 :> "B" @@ 2 :> "C" @@ 3 :> "D" @@ 4 :> "1" @@ 5 :> "0" @@ 7 :> "M"

\* disassemble: ops, keyed by the value of the three bits
ops ==
  0 :> "A" @@ 1 :> "B" @@ 2 :> "C" @@ 3 :> "D" @@ 4 :> "0" @@ 5 :> "1" @@ 7 :> "M"

\* disassemble: cmps, keyed by the value of the three bits
cmps ==
  0 :> "NIL" @@ 1 :> "=" @@ 2 :> "<" @@ 3 :> "<=" @@ 4 :> "JMP" @@ 5 :> "!=" @@
  6 :> ">=" @@ 7 :> ">"

\* disassemble: v, the sign of NOT, CPY, NEG and of the other modes
DisSign ==
  "NOT" :> <<"!">> @@ "CPY" :> <<>> @@ "NEG" :> <<"-">> @@
  "AND" :> <<"&">> @@ "OR" :> <<"|">> @@ "XOR" :> <<"^">> @@ "ADD" :> <<"+">> @@
  "SUB" :> <<"-">> @@ "MUL" :> <<"*">> @@ "DIV" :> <<"/">> @@ "REM" :> <<"%">>

\* disassemble: res, the registers of ABCDM whose bit is 1, in that order
DisRes(bits) ==
  Concat(LAMBDA i : IF i <= Len(bits) /\ bits[i] = 1
                    THEN <<<<"A", "B", "C", "D", "M">>[i]>> ELSE <<>>,
         <<1, 2, 3, 4, 5>>, 1, 5)

NoListing == [err |-> "none", text |-> <<>>]

\* disassemble(instruction): [err |-> "" or the error raised, text |-> the line]
disassemble(instruction) ==
  IF instruction[1] = 0
  THEN [err |-> "", text |-> <<"@n", Int2(SubSeq(instruction, 2, Len(instruction)))>>]
  ELSE IF \/ Int2(SubSeq(instruction, 2, 5)) \notin DOMAIN modes
          \/ Int2(SubSeq(instruction, 6, 8)) \notin DOMAIN ops
          \/ Int2(SubSeq(instruction, 9, 11)) \notin DOMAIN ops
  THEN [err |-> "KeyError", text |-> <<>>]
  ELSE IF modes[Int2(SubSeq(instruction, 2, 5))] = "JMP"
  THEN IF Int2(SubSeq(instruction, 14, Len(instruction))) \notin DOMAIN cmps
       THEN [err |-> "KeyError", text |-> <<>>]
       ELSE IF cmps[Int2(SubSeq(instruction, 14, Len(instruction)))] \in {"NIL", "JMP"}
       THEN [err |-> "", text |-> <<cmps[Int2(SubSeq(instruction, 14, Len(instruction)))]>>]
       ELSE [err |-> "",
             text |-> <<"JMP", ops[Int2(SubSeq(instruction, 6, 8))],
                        cmps[Int2(SubSeq(instruction, 14, Len(instruction)))],
                        ops[Int2(SubSeq(instruction, 9, 11))]>>]
  ELSE IF modes[Int2(SubSeq(instruction, 2, 5))] \in {"NOT", "CPY", "NEG"}
  THEN [err |-> "",
        text |-> DisRes(SubSeq(instruction, 12, Len(instruction))) \o <<"=">>
                 \o DisSign[modes[Int2(SubSeq(instruction, 2, 5))]]
                 \o <<ops[Int2(SubSeq(instruction, 6, 8))]>>]
  ELSE [err |-> "",
        text |-> DisRes(SubSeq(instruction, 12, Len(instruction))) \o <<"=">>
                 \o <<ops[Int2(SubSeq(instruction, 6, 8))]>>
                 \o DisSign[modes[Int2(SubSeq(instruction, 2, 5))]]
                 \o <<ops[Int2(SubSeq(instruction, 9, 11))]>>]

(***************************************************************************)
(* Translator.  A VM statement is the sequence of its tokens,              *)
(* <<"push", "constant", 7>>, <<"add">>, <<"label", "L">>,                 *)
(* <<"call", "F.f", 2>>, <<"function", "F.f", 1>>, <<"return">>.  The      *)
(* translator's state is [asm, counter, fn, err]: the lines so far,        *)
(* __counter, __current_function ("" for None) and the error raised.       *)
(***************************************************************************)
MARKER == "____"

\* a comment line; its text is kept as tokens
Comment(text) == <<"#">> \o text

\* a number format that gives the same digits for every n
Pad4Zero(n) == "0000"

\* f'{n:04d}'
Pad4(n) ==
  IF n < 10 THEN "000" \o ToString(n)
  ELSE IF n < 100 THEN "00" \o ToString(n)
  ELSE IF n < 1000 THEN "0" \o ToString(n)
  ELSE ToString(n)

\* seq repeated n times
RECURSIVE Repeat(_, _)
Repeat(seq, n) == IF n <= 0 THEN <<>> ELSE seq \o Repeat(seq, n - 1)

\* __bootstrap
bootstrap ==
  <<Comment(<<"BOOTSTRAP">>), <<"@n", 256>>, <<"D", "=", "A">>, <<"@", "SP">>,
    <<"M", "=", "D">>>>

\* a __make_label that leaves the function out
make_labelBare(fn, cmdlabel) == cmdlabel

\* __make_label
make_label(fn, cmdlabel) ==
  IF fn = "" THEN cmdlabel ELSE fn \o "." \o cmdlabel

\* __push_from
push_from(reg) ==
  <<<<"@", "SP">>, <<"A", "M", "=", "M", "+", "1">>, <<"A", "=", "A", "-", "1">>,
    <<"M", "=", reg>>>>

\* __pop_into
pop_into(reg) ==
  <<<<"@", "SP">>, <<"A", "M", "=", "M", "-", "1">>, <<reg, "=", "M">>>>

\* __advance_A
advance_A(offset) ==
  IF offset > 3
  THEN <<<<"B", "=", "A">>, <<"@n", offset>>, <<"A", "=", "A", "+", "B">>>>
  ELSE Repeat(<<<<"A", "=", "A", "+", "1">>>>, offset)

\* __label
TrLabel(label, st) ==
  [st EXCEPT !.asm = @ \o <<Comment(<<"label", label>>),
                            <<"(", make_label(st.fn, label), ")">>>>,
             !.counter = @ + 1]

\* __goto
TrGoto(label, st) ==
  [st EXCEPT !.asm = @ \o <<Comment(<<"goto", label>>),
                            <<"goto", make_label(st.fn, label)>>>>]

\* __function
TrFunction(name, nvars, st) ==
  [st EXCEPT !.asm = @ \o <<Comment(<<"function", name, ToString(nvars)>>),
                            <<"(", name, ")">>, <<"@n", 0>>, <<"D", "=", "A">>>>
                         \o Repeat(push_from("D"), nvars),
             !.fn = name]

\* an opmap whose LE and GE leave out the equality
opmapStrict ==
  "EQ" :> "=" @@ "LT" :> "<" @@ "GT" :> ">" @@ "NE" :> "!=" @@ "LE" :> "<" @@
  "GE" :> ">"

\* __conditional: opmap
opmap ==
  "EQ" :> "=" @@ "LT" :> "<" @@ "GT" :> ">" @@ "NE" :> "!=" @@ "LE" :> "<=" @@
  "GE" :> ">="

\* __conditional, for an op of opmap
conditional(op, truecmds, falsecmds, cnt) ==
  <<<<"C", opmap[op], "B", "?", MARKER \o op \o "_BEGIN" \o Pad4(cnt)>>>>
  \o falsecmds
  \o <<<<"GOTO", MARKER \o op \o "_END" \o Pad4(cnt)>>,
       <<"(", MARKER \o op \o "_BEGIN" \o Pad4(cnt), ")">>>>
  \o truecmds
  \o <<<<"(", MARKER \o op \o "_END" \o Pad4(cnt), ")">>>>

\* __operator: lookup
lookup ==
  "AND" :> <<"D", "=", "C", "&", "B">> @@ "OR" :> <<"D", "=", "C", "|", "B">> @@
  "NOT" :> <<"D", "=", "!", "B">> @@ "ADD" :> <<"D", "=", "C", "+", "B">> @@
  "SUB" :> <<"D", "=", "C", "-", "B">> @@ "NEG" :> <<"D", "=", "-", "B">> @@
  "MUL" :> <<"D", "=", "C", "*", "B">>

\* __operator; an op in neither lookup nor opmap raises KeyError in __conditional
TrOperator(op, st) ==
  LET pops == pop_into("B")
              \o (IF op # "NOT" /\ op # "NEG" THEN pop_into("C") ELSE <<>>)
  IN
  IF op \in DOMAIN lookup
  THEN [st EXCEPT !.asm = @ \o <<Comment(<<op>>)>> \o pops \o <<lookup[op]>>
                            \o push_from("D")]
  ELSE IF op \in DOMAIN opmap
  THEN [st EXCEPT !.asm = @ \o <<Comment(<<op>>)>> \o pops
                            \o conditional(op,
                                 <<<<"D", "=", "!", "0">>>> \o push_from("D"),
                                 <<<<"D", "=", "0">>>> \o push_from("D"),
                                 st.counter),
                  !.counter = @ + 1]
  ELSE [st EXCEPT !.err = "KeyError"]

\* __push
TrPush(seg, num, st) ==
  [st EXCEPT !.asm = @ \o <<Comment(<<"push", seg, ToString(num)>>)>> \o
    (CASE seg = "ARGUMENT" ->
            <<<<"@", "ARG">>, <<"A", "=", "M">>>> \o advance_A(num)
            \o <<<<"D", "=", "M">>>> \o push_from("D")
       [] seg = "CONSTANT" ->
            <<<<"@n", num>>, <<"D", "=", "A">>>> \o push_from("D")
       [] seg = "LOCAL" ->
            <<<<"@", "LCL">>, <<"A", "=", "M">>>> \o advance_A(num)
            \o <<<<"D", "=", "M">>>> \o push_from("D")
       [] OTHER -> <<>>)]

\* __pop
TrPop(seg, num, st) ==
  [st EXCEPT !.asm = @ \o <<Comment(<<"pop", seg, ToString(num)>>)>> \o
    (CASE seg = "ARGUMENT" ->
            pop_into("D") \o <<<<"@", "ARG">>, <<"A", "=", "M">>>> \o advance_A(num)
            \o <<<<"M", "=", "D">>>>
       [] seg = "LOCAL" ->
            pop_into("D") \o <<<<"@", "LCL">>, <<"A", "=", "M">>>> \o advance_A(num)
            \o <<<<"M", "=", "D">>>>
       [] OTHER -> <<>>)]

\* __output
TrOutput(seg, num, st) ==
  LET tail == <<<<"D", "=", "M">>, <<"@", "OUTPUT">>, <<"M", "=", "D">>>> IN
  CASE seg = "ARGUMENT" ->
         [st EXCEPT !.asm = @ \o <<Comment(<<"output", seg, ToString(num)>>),
                                   <<"@", "ARG">>, <<"A", "=", "M">>>>
                                \o advance_A(num) \o tail]
    [] seg = "LOCAL" ->
         [st EXCEPT !.asm = @ \o <<Comment(<<"output", seg, ToString(num)>>),
                                   <<"@", "LCL">>, <<"A", "=", "M">>>>
                                \o advance_A(num) \o tail]
    [] seg = "STATIC" ->
         [st EXCEPT !.asm = @ \o <<Comment(<<"output", seg, ToString(num)>>),
                                   <<"@", seg \o Pad4(num)>>>> \o tail]
    [] seg = "CONSTANT" ->
         [st EXCEPT !.asm = @ \o <<Comment(<<"output", seg, ToString(num)>>),
                                   <<"@n", num>>, <<"D", "=", "A">>,
                                   <<"@", "OUTPUT">>, <<"M", "=", "D">>>>]
    [] OTHER -> [st EXCEPT !.err = "invalid instruction"]

\* __ifgoto
TrIfgoto(label, st) ==
  [st EXCEPT !.asm = @ \o <<Comment(<<"if-goto", label>>)>> \o pop_into("D")
                         \o <<<<"D", "!=", "0", "?", make_label(st.fn, label)>>>>]

\* __call: the return-address label
return_address_label(name, cnt) == name \o "$ret." \o ToString(cnt)

\* a __call that forgets the arguments when it places ARG
CallArgAtFrame(nargs) ==
  <<<<"@", "SP">>, <<"D", "=", "M">>, <<"@n", 0>>, <<"D", "=", "D", "-", "A">>,
    <<"@n", 5>>, <<"D", "=", "D", "-", "A">>>>

\* __call: the address the callee's ARG is set to, as lines computing it in D
CallArg(nargs) ==
  <<<<"@", "SP">>, <<"D", "=", "M">>, <<"@n", nargs>>, <<"D", "=", "D", "-", "A">>,
    <<"@n", 5>>, <<"D", "=", "D", "-", "A">>>>

\* __call: the lines after the comment
CallAsm(name, nargs, cnt) ==
  <<<<"@", return_address_label(name, cnt)>>, <<"D", "=", "A">>>>
  \o push_from("D")
  \o <<<<"@", "LCL">>, <<"D", "=", "M">>>> \o push_from("D")
  \o <<<<"@", "ARG">>, <<"D", "=", "M">>>> \o push_from("D")
  \o <<<<"@", "THIS">>, <<"D", "=", "M">>>> \o push_from("D")
  \o <<<<"@", "THAT">>, <<"D", "=", "M">>>> \o push_from("D")
  \o CallArg(nargs)
  \o <<<<"@", "ARG">>, <<"M", "=", "D">>,
       <<"@", "SP">>, <<"D", "=", "M">>, <<"@", "LCL">>, <<"M", "=", "D">>,
       <<"@", name>>, <<"JUMP">>,
       <<"(", return_address_label(name, cnt), ")">>>>

\* __call
TrCall(name, nargs, st) ==
  [st EXCEPT !.asm = @ \o <<Comment(<<"call", name, nargs>>)>>
                         \o CallAsm(name, nargs, st.counter),
             !.counter = @ + 1]

\* __return: restoring one saved pointer from the frame
Restore(segment) ==
  <<<<"@", "R13">>, <<"A", "M", "=", "M", "-", "1">>, <<"D", "=", "M">>,
    <<"@", segment>>, <<"M", "=", "D">>>>

\* a __return that reads the return address only after it has stored the
\* return value
ReturnAsmLateAddress ==
  <<<<"@", "LCL">>, <<"D", "=", "M">>, <<"@", "R13">>, <<"M", "=", "D">>,
    <<"@", "SP">>, <<"A", "=", "M", "-", "1">>, <<"D", "=", "M">>, <<"@", "ARG">>,
    <<"A", "=", "M">>, <<"M", "=", "D">>,
    <<"@", "R13">>, <<"D", "=", "M">>,
    <<"@n", 5>>, <<"A", "=", "D", "-", "A">>, <<"D", "=", "M">>, <<"@", "R14">>,
    <<"M", "=", "D">>,
    <<"@", "ARG">>, <<"D", "=", "M", "+", "1">>, <<"@", "SP">>, <<"M", "=", "D">>>>
  \o Restore("THAT") \o Restore("THIS") \o Restore("ARG") \o Restore("LCL")
  \o <<<<"@", "R14">>, <<"A", "=", "M">>, <<"JUMP">>>>

\* __return: the lines after the comment
ReturnAsm ==
  <<<<"@", "LCL">>, <<"D", "=", "M">>, <<"@", "R13">>, <<"M", "=", "D">>,
    <<"@n", 5>>, <<"A", "=", "D", "-", "A">>, <<"D", "=", "M">>, <<"@", "R14">>,
    <<"M", "=", "D">>,
    <<"@", "SP">>, <<"A", "=", "M", "-", "1">>, <<"D", "=", "M">>, <<"@", "ARG">>,
    <<"A", "=", "M">>, <<"M", "=", "D">>,
    <<"@", "ARG">>, <<"D", "=", "M", "+", "1">>, <<"@", "SP">>, <<"M", "=", "D">>>>
  \o Restore("THAT") \o Restore("THIS") \o Restore("ARG") \o Restore("LCL")
  \o <<<<"@", "R14">>, <<"A", "=", "M">>, <<"JUMP">>>>

\* __return
TrReturn(st) ==
  [st EXCEPT !.asm = @ \o <<Comment(<<"return">>)>> \o ReturnAsm]

\* .upper() of the operator and segment keywords
Upper ==
  "and" :> "AND" @@ "or" :> "OR" @@ "not" :> "NOT" @@ "xor" :> "XOR" @@
  "add" :> "ADD" @@ "sub" :> "SUB" @@ "neg" :> "NEG" @@ "mul" :> "MUL" @@
  "div" :> "DIV" @@ "rem" :> "REM" @@ "eq" :> "EQ" @@ "lt" :> "LT" @@
  "gt" :> "GT" @@ "ne" :> "NE" @@ "le" :> "LE" @@ "ge" :> "GE" @@
  "local" :> "LOCAL" @@ "argument" :> "ARGUMENT" @@ "this" :> "THIS" @@
  "that" :> "THAT" @@ "constant" :> "CONSTANT" @@ "static" :> "STATIC" @@
  "pointer" :> "POINTER" @@ "temp" :> "TEMP"

Operators ==
  {"and", "or", "not", "xor", "add", "sub", "neg", "mul", "div", "rem",
   "eq", "lt", "gt", "ne", "le", "ge"}

\* translate: the loop body, one statement
TranslateStatement(elt, st) ==
  CASE elt[1] \in Operators -> TrOperator(Upper[elt[1]], st)
    [] elt[1] = "push" -> TrPush(Upper[elt[2]], elt[3], st)
    [] elt[1] = "pop" -> TrPop(Upper[elt[2]], elt[3], st)
    [] elt[1] = "label" -> TrLabel(elt[2], st)
    [] elt[1] = "goto" -> TrGoto(elt[2], st)
    [] elt[1] = "if-goto" -> TrIfgoto(elt[2], st)
    [] elt[1] = "call" -> TrCall(elt[2], elt[3], st)
    [] elt[1] = "function" -> TrFunction(elt[2], elt[3], st)
    [] elt[1] = "return" -> TrReturn(st)
    [] elt[1] = "output" -> TrOutput(Upper[elt[2]], elt[3], st)
    [] OTHER -> [st EXCEPT !.err = "Unknown command"]

\* translate: the loop, left by the first statement that raises
TranslateAll(instructions, st) ==
  ForEach(LAMBDA elt, s : IF s.err # "" THEN s ELSE TranslateStatement(elt, s),
          instructions, 1, Len(instructions), st)

\* a translate whose prologue ends in a loop instead of going to the end
translateLoopAtEnd(instructions, cnt, fn) ==
  LET st0 == [asm |-> bootstrap, counter |-> cnt, fn |-> fn, err |-> ""]
      st1 == TrCall("Main.main", 0, st0)
      st2 == [st1 EXCEPT !.asm = @ \o <<<<"(", "_INFINITE_END_PROGRAM_LOOP_", ")">>,
                                          <<"goto", "_INFINITE_END_PROGRAM_LOOP_">>>>]
      st3 == TranslateAll(instructions, st2)
  IN IF st3.err # "" THEN [st3 EXCEPT !.asm = <<>>] ELSE st3

\* translate, on a Translator whose __counter and __current_function are given
translate(instructions, cnt, fn) ==
  LET st0 == [asm |-> bootstrap, counter |-> cnt, fn |-> fn, err |-> ""]
      st1 == TrCall("Main.main", 0, st0)
      st2 == [st1 EXCEPT !.asm = @ \o <<<<"goto", "_END_PROGRAM_">>>>]
      st3 == TranslateAll(instructions, st2)
  IN IF st3.err # "" THEN [st3 EXCEPT !.asm = <<>>]
     ELSE [st3 EXCEPT !.asm = @ \o <<<<"(", "_END_PROGRAM_", ")">>>>]

(***************************************************************************)
(* The programs loaded: VM programs translated and assembled, assembly     *)
(* programs assembled, and binary words written by hand.                   *)
(***************************************************************************)
\* the largest argument count of a call in VmArgs
MaxArgs == 2
\* the depth of the recursion in VmRec
RecDepth == 2

\* the number of words a line assembles to
WordCount(line) ==
  CASE EType(line) \in {"comment", "label"} -> 0
    [] EType(line) \in {"goto", "conditional"} -> 2
    [] OTHER -> 1

\* the instruction index of the first word of line i
Address(lines, i) == Sum(WordCount, lines, 1, i - 1)

IsComment(line, kind) == line[1] = "#" /\ line[2] = kind

\* the call sequences of translated lines: where each starts, its argument
\* count and the instruction index of its return-address label
CallSites(lines, labelmap) ==
  {[start |-> Address(lines, i), nargs |-> lines[i][4],
    target |-> lines[i][3], ret |-> labelmap[lines[i + 1][2]]] :
     i \in {j \in 1..Len(lines) : IsComment(lines[j], "call")}}

\* the return sequences of translated lines: first and last instruction index
ReturnSites(lines) ==
  {[start |-> Address(lines, i), jump |-> Address(lines, i + Len(ReturnAsm) + 1) - 1] :
     i \in {j \in 1..Len(lines) : IsComment(lines[j], "return")}}

\* the instruction index each comment of translated lines stands at, in
\* order, and then the number of instructions: translate writes one comment
\* at the head of the prologue, one at the head of its call of Main.main and
\* one at the head of the lines of each VM statement
Starts(lines) ==
  With(LAMBDA acc : Append(acc.starts, acc.n),
       ForEach(LAMBDA line, acc :
                 [n |-> acc.n + WordCount(line),
                  starts |-> IF line[1] = "#" THEN Append(acc.starts, acc.n)
                             ELSE acc.starts],
               lines, 1, Len(lines), [n |-> 0, starts |-> <<>>]))

\* a loadable program: the words, and where its calls, its returns and its
\* VM statements are
Sites(lines, a) ==
  [words |-> a.out, err |-> a.err, labelmap |-> a.labelmap,
   calls |-> IF a.err = "" THEN CallSites(lines, a.labelmap) ELSE {},
   returns |-> IF a.err = "" THEN ReturnSites(lines) ELSE {},
   starts |-> IF a.err = "" /\ Len(lines) > 0 /\ lines[1][1] = "#"
              THEN Starts(lines) ELSE <<>>]

FromAsm(lines) == Sites(lines, assemble(lines))

FromWords(words) ==
  [words |-> words, err |-> "", labelmap |-> EmptyMap, calls |-> {}, returns |-> {},
   starts |-> <<>>]

\* push constant x, push constant y, add: no function is defined
VmSum(x, y) ==
  <<<<"push", "constant", x>>, <<"push", "constant", y>>, <<"add">>>>

\* the same inside Main.main, which returns the sum
VmMain(x, y) ==
  <<<<"function", "Main.main", 0>>>> \o VmSum(x, y) \o <<<<"return">>>>

\* push constant 1 .. push constant n
RECURSIVE PushArgs(_)
PushArgs(n) ==
  IF n = 0 THEN <<>> ELSE PushArgs(n - 1) \o <<<<"push", "constant", n>>>>

\* Main.main keeps 40 in a local, calls Lib.count with n arguments and adds
\* the result to the local; Lib.count calls Lib.id with one argument and
\* Lib.zero with none
VmArgs(n) ==
  <<<<"function", "Main.main", 1>>, <<"push", "constant", 40>>, <<"pop", "local", 0>>>>
  \o PushArgs(n)
  \o <<<<"call", "Lib.count", n>>, <<"push", "local", 0>>, <<"add">>, <<"return">>,
       <<"function", "Lib.count", 2>>, <<"push", "constant", 9>>, <<"pop", "local", 1>>,
       (IF n > 0 THEN <<"push", "argument", n - 1>> ELSE <<"push", "local", 1>>),
       <<"call", "Lib.id", 1>>, <<"call", "Lib.zero", 0>>, <<"add">>, <<"return">>,
       <<"function", "Lib.id", 0>>, <<"push", "argument", 0>>, <<"return">>,
       <<"function", "Lib.zero", 0>>, <<"push", "constant", 100>>, <<"return">>>>

\* Lib.down calls itself with its argument less one until it is 0
VmRec(d) ==
  <<<<"function", "Main.main", 0>>, <<"push", "constant", d>>,
    <<"call", "Lib.down", 1>>, <<"return">>,
    <<"function", "Lib.down", 0>>, <<"push", "argument", 0>>, <<"if-goto", "REC">>,
    <<"push", "constant", 9>>, <<"return">>,
    <<"label", "REC">>, <<"push", "argument", 0>>, <<"push", "constant", 1>>,
    <<"sub">>, <<"call", "Lib.down", 1>>, <<"return">>>>

\* an unconditional self-loop
AsmLoop == <<<<"(", "LOOP", ")">>, <<"GOTO", "LOOP">>>>

\* load 2, add 3, store to memory cell 0
AsmStore ==
  <<<<"@n", 2>>, <<"D", "=", "A">>, <<"@n", 3>>, <<"D", "=", "D", "+", "A">>,
    <<"@n", 0>>, <<"M", "=", "D">>>>

\* jumps written as words: a comparison that fails, one that holds with
\* another operand than A selected, a jump with A negative, and a jump word
\* whose two mask bits before the comparison code are not 00
RawJumps ==
  <<<<0,0,0,0,0,0,0,0,0,0,0,0,0,1,0,1>>,   \* 0: @5
    <<1,1,0,0,0,0,0,0,0,0,0,0,0,0,1,0>>,   \* 1: D=A
    <<1,1,1,1,1,0,1,1,1,0,0,0,0,0,0,1>>,   \* 2: JMP D = 0 (fails)
    <<0,0,0,0,0,0,0,0,0,0,0,0,0,1,1,0>>,   \* 3: @6
    <<1,1,1,1,1,0,1,1,1,0,0,0,0,1,1,1>>,   \* 4: JMP D > 0 (holds: to 6)
    <<1,1,0,0,0,1,0,1,0,0,0,0,0,0,1,0>>,   \* 5: D=1 (skipped)
    <<0,0,0,0,0,0,0,0,0,0,0,0,0,0,0,1>>,   \* 6: @1
    <<1,1,0,0,1,0,0,0,0,0,0,1,0,0,0,0>>,   \* 7: A=-A
    <<1,1,1,1,1,0,0,0,0,0,0,0,0,1,0,0>>,   \* 8: JMP (A = -1)
    <<0,0,0,0,0,0,0,0,0,0,0,0,1,0,1,1>>,   \* 9: @11
    <<1,1,1,1,1,0,0,0,0,0,0,0,1,1,0,0>>,   \* 10: JMP, mask bits 01
    <<1,1,0,0,0,1,0,1,0,0,0,0,0,0,0,1>>>>  \* 11: M=1

\* operations written as words: every destination written at once, the
\* memory cell being the one A addresses before the step, and an empty mask
RawOps ==
  <<<<0,0,0,0,0,0,0,0,0,0,0,0,0,0,1,1>>,   \* 0: @3
    <<1,1,0,1,0,0,0,0,1,0,1,1,1,1,1,1>>,   \* 1: ABCDM=A+1
    <<1,1,0,0,0,1,0,1,0,0,0,0,0,0,0,0>>,   \* 2: =1 (no destination)
    <<1,1,0,0,1,0,1,1,0,0,0,0,1,1,0,1>>>>  \* 3: BCM=-D

\* 32767 added to itself twice, and the negative of the sum
AsmWide ==
  <<<<"@n", 32767>>, <<"D", "=", "A">>, <<"D", "=", "D", "+", "A">>,
    <<"D", "=", "D", "+", "A">>, <<"C", "=", "-", "D">>, <<"@n", 0>>, <<"M", "=", "D">>>>

\* a loop that counts D down from 5460 and two more instructions: the
\* program ends when it has executed 2 + 3 * 5460 + 2 = MAX_ITERS instructions
AsmCount ==
  <<<<"@n", 5460>>, <<"D", "=", "A">>,
    <<"(", "LOOP", ")">>, <<"D", "=", "D", "-", "1">>, <<"D", ">", "0", "?", "LOOP">>,
    <<"@n", 0>>, <<"M", "=", "D">>>>

\* the VM programs: VmArgs(0) .. VmArgs(MaxArgs) come last
VmPrograms ==
  <<VmSum(7, 8), VmMain(7, 8), VmRec(RecDepth)>> \o [n \in 1..MaxArgs + 1 |-> VmArgs(n - 1)]

\* main: each VM program goes through a new Translator
Translated == [i \in 1..Len(VmPrograms) |-> translate(VmPrograms[i], 0, "").asm]

AsmPrograms == <<AsmLoop, AsmStore, AsmWide, AsmCount>> \o Translated

\* the programs written as words
RawPrograms == <<RawJumps, RawOps>>

\* the VM source of program p, empty if p is not a translated program
VmOf ==
  [p \in 1..Len(RawPrograms) + Len(AsmPrograms) |->
     IF p > Len(RawPrograms) + Len(AsmPrograms) - Len(VmPrograms)
     THEN VmPrograms[p - (Len(RawPrograms) + Len(AsmPrograms) - Len(VmPrograms))]
     ELSE <<>>]

Programs ==
  [i \in 1..Len(RawPrograms) |-> FromWords(RawPrograms[i])]
  \o [i \in 1..Len(AsmPrograms) |-> FromAsm(AsmPrograms[i])]

(***************************************************************************)
(* The programs main is run on.  Each has one function, Unit.f, called     *)
(* from Main.main with MaxOffset + 1 arguments and with MaxOffset + 1      *)
(* locals, and in it the statements of one body.                           *)
(***************************************************************************)
\* the largest offset of a push, pop or output statement
MaxOffset == 4

\* the segments of the grammar
Segments ==
  <<"local", "argument", "this", "that", "constant", "static", "pointer", "temp">>

\* the values the operators are applied to
Operands == <<-2, 0, 3>>

\* the operators with two operands, and those with one
BinaryOperators ==
  <<"add", "sub", "mul", "div", "rem", "and", "or", "xor",
    "eq", "lt", "gt", "ne", "le", "ge">>
UnaryOperators == <<"neg", "not">>

\* the statements that leave v on the stack: a constant is not negative
PushValue(v) ==
  IF v < 0 THEN <<<<"push", "constant", -v>>, <<"neg">>>>
  ELSE <<<<"push", "constant", v>>>>

\* push constant 11 .. push constant 10 + n
PushDistinct(n) == [j \in 1..n |-> <<"push", "constant", 10 + j>>]

\* push constant 21, pop local 0 .. : every local gets a value of its own
FillLocals(n) ==
  Concat(LAMBDA j : <<<<"push", "constant", 20 + j>>, <<"pop", "local", j - 1>>>>,
         [j \in 1..n |-> j], 1, n)

\* the VM program around a body
UnitVm(body) ==
  <<<<"function", "Main.main", 0>>>>
  \o PushDistinct(MaxOffset + 1)
  \o <<<<"call", "Unit.f", MaxOffset + 1>>, <<"return">>,
       <<"function", "Unit.f", MaxOffset + 1>>>>
  \o FillLocals(MaxOffset + 1)
  \o body
  \o <<<<"return">>>>

\* the offsets 0 .. MaxOffset
Offsets == [j \in 1..MaxOffset + 1 |-> j - 1]

\* the pairs of operands, and the operands
Pairs ==
  [j \in 1..Len(Operands) * Len(Operands) |->
     <<Operands[((j - 1) \div Len(Operands)) + 1], Operands[((j - 1) % Len(Operands)) + 1]>>]
Singles == [j \in 1..Len(Operands) |-> <<Operands[j]>>]

\* push seg 0 .. push seg MaxOffset, for every segment
PushBodies ==
  [s \in 1..Len(Segments) |->
     Concat(LAMBDA i : <<<<"push", Segments[s], i>>>>, Offsets, 1, Len(Offsets))]

\* push constant 30, pop seg 0 .. , for every segment
PopBodies ==
  [s \in 1..Len(Segments) |->
     Concat(LAMBDA i : <<<<"push", "constant", 30 + i>>, <<"pop", Segments[s], i>>>>,
            Offsets, 1, Len(Offsets))]

\* output seg 0 .. output seg MaxOffset, for every segment
OutputBodies ==
  [s \in 1..Len(Segments) |->
     Concat(LAMBDA i : <<<<"output", Segments[s], i>>>>, Offsets, 1, Len(Offsets))]

\* x, y, op for every pair of operands, for every operator with two operands
BinaryBodies ==
  [o \in 1..Len(BinaryOperators) |->
     Concat(LAMBDA xy : PushValue(xy[1]) \o PushValue(xy[2])
                        \o <<<<BinaryOperators[o]>>>>,
            Pairs, 1, Len(Pairs))]

\* y, op for every operand, for every operator with one operand
UnaryBodies ==
  [o \in 1..Len(UnaryOperators) |->
     Concat(LAMBDA y : PushValue(y[1]) \o <<<<UnaryOperators[o]>>>>,
            Singles, 1, Len(Singles))]

UnitBodies == PushBodies \o PopBodies \o OutputBodies \o BinaryBodies \o UnaryBodies

\* main: a new Translator translates the source, a new Assembler assembles
\* the lines
Compiled(vm) ==
  With(LAMBDA tr :
         With(LAMBDA bin : [vm |-> vm, tr |-> tr, bin |-> bin,
                            sites |-> Sites(tr.asm, bin)],
              IF tr.err = "" THEN assemble(tr.asm) ELSE Raised("none")),
       translate(vm, 0, ""))

\* Lib.f and Lib.g each have a label L: Lib.f goes to it forward, Lib.g
\* comes back to it as long as its local, c at first, is greater than 1;
\* each has a comparison
VmScoped(c) ==
  <<<<"function", "Main.main", 0>>, <<"call", "Lib.f", 0>>, <<"call", "Lib.g", 0>>,
    <<"add">>, <<"return">>,
    <<"function", "Lib.f", 0>>, <<"push", "constant", 1>>, <<"push", "constant", 0>>,
    <<"gt">>, <<"goto", "L">>,
    <<"push", "constant", 2>>, <<"label", "L">>, <<"return">>,
    <<"function", "Lib.g", 1>>, <<"push", "constant", c>>, <<"pop", "local", 0>>,
    <<"label", "L">>, <<"push", "local", 0>>, <<"push", "constant", 1>>, <<"sub">>,
    <<"pop", "local", 0>>, <<"push", "local", 0>>, <<"push", "constant", 0>>,
    <<"gt">>, <<"if-goto", "L">>, <<"push", "constant", 5>>, <<"return">>>>

\* Lib and Lib.f each have a label f
VmNested ==
  <<<<"function", "Main.main", 0>>, <<"call", "Lib", 0>>, <<"return">>,
    <<"function", "Lib", 0>>, <<"push", "constant", 1>>, <<"goto", "f">>,
    <<"label", "f">>, <<"return">>,
    <<"function", "Lib.f", 0>>, <<"push", "constant", 2>>, <<"goto", "f">>,
    <<"label", "f">>, <<"return">>>>

\* the sources main is run on
UnitSources ==
  [k \in 1..Len(UnitBodies) |-> UnitVm(UnitBodies[k])]
  \o <<VmScoped(1), VmScoped(2), VmNested>>

Units == [k \in 1..Len(UnitSources) |-> Compiled(UnitSources[k])]

(***************************************************************************)
(* Computer: the operations                                                *)
(***************************************************************************)
NoFrame == [site |-> -1]
NoRun == [program |-> 0]
NoMark == [at |-> -1, ram |-> EmptyMap]

\* a reset that leaves the memory as it is
ResetKeepingMemory ==
  /\ register' = <<0, 0, 0, 0>>
  /\ counter' = 0
  /\ ram' = ram
  /\ iters' = 0
  /\ finished' = FALSE

\* reset
Reset ==
  /\ register' = <<0, 0, 0, 0>>
  /\ counter' = 0
  /\ ram' = EmptyMap
  /\ iters' = 0
  /\ finished' = FALSE

Init ==
  /\ program = 0
  /\ register = <<0, 0, 0, 0>>
  /\ counter = 0
  /\ ram = EmptyMap
  /\ iters = 0
  /\ finished = FALSE
  /\ ret = "none"
  /\ pc = "idle"
  /\ frames = <<>>
  /\ done = NoFrame
  /\ last = NoFrame
  /\ ref = NoRun
  /\ mark = NoMark
  /\ source = <<>>
  /\ binary = Raised("none")
  /\ listing = NoListing
  /\ trcounter = 0
  /\ current_function = ""
  /\ vmsource = <<>>
  /\ asmins = [asm |-> <<>>, err |-> "none"]

\* self.program: None until load
Loaded ==
  IF program = 0 THEN FromWords(<<>>)
  ELSE IF program <= Len(Programs) THEN Programs[program]
  ELSE Units[program - Len(Programs)].sites

\* a cap that is passed before it stops the machine
CapExceeded == iters > MAX_ITERS

\* a cap twice as high
CapDoubled == iters >= MAX_ITERS + MAX_ITERS

\* step's test of the cap
CapReached == iters >= MAX_ITERS

Pointers(mem) == [sp |-> Cell(mem, 0), lcl |-> Cell(mem, 1), arg |-> Cell(mem, 2),
                  this |-> Cell(mem, 3), that |-> Cell(mem, 4)]

\* history: the frame opened by the call sequence c
Frame(c, mem) ==
  [site |-> c.start, nargs |-> c.nargs, target |-> c.target, ret |-> c.ret,
   at |-> Pointers(mem), val |-> 0, cell |-> 0]

\* history: what executing the instruction at counter does to the open frames
\* (frames), the frame closed by this step (done) and the last one closed (last)
Observe(prog, calls) ==
  IF calls # {}
  THEN /\ frames' = Append(frames, Frame(CHOOSE c \in calls : TRUE, ram))
       /\ done' = NoFrame
       /\ last' = last
  ELSE IF Len(frames) > 0 /\ \E r \in prog.returns : r.start = counter
  THEN /\ frames' = [frames EXCEPT ![Len(frames)].val = Cell(ram, Cell(ram, 0) - 1),
                                   ![Len(frames)].cell = Cell(ram, 2)]
       /\ done' = NoFrame
       /\ last' = last
  ELSE IF Len(frames) > 0 /\ \E r \in prog.returns : r.jump = counter
  THEN /\ frames' = SubSeq(frames, 1, Len(frames) - 1)
       /\ done' = frames[Len(frames)]
       /\ last' = frames[Len(frames)]
  ELSE /\ frames' = frames
       /\ done' = NoFrame
       /\ last' = last

\* a step whose result says whether the next step has an instruction to
\* execute
PerformAndLookAhead(r) ==
  /\ register' = r.register
  /\ ram' = r.ram
  /\ counter' = IF r.jump < 0 THEN counter + 1 ELSE r.jump
  /\ ret' = IF counter' < Len(Loaded.words) /\ iters' < MAX_ITERS THEN "True" ELSE "False"

\* step, from the decoding on: the effect r of the instruction, and True
Perform(r) ==
  /\ register' = r.register
  /\ ram' = r.ram
  /\ counter' = IF r.jump < 0 THEN counter + 1 ELSE r.jump
  /\ ret' = "True"

\* step
StepBody(prog) ==
  IF finished
  THEN /\ ret' = "False"
       /\ UNCHANGED <<program, register, counter, ram, iters, finished, frames, done,
                      last>>
  ELSE IF program = 0
  THEN /\ ret' = "raise"
       /\ UNCHANGED <<program, register, counter, ram, iters, finished, frames, done,
                      last>>
  ELSE IF counter >= Len(prog.words) \/ CapReached
  THEN /\ finished' = TRUE
       /\ ret' = "False"
       /\ UNCHANGED <<program, register, counter, ram, iters, frames, done, last>>
  ELSE /\ iters' = iters + 1
       /\ UNCHANGED <<program, finished>>
       /\ \E instruction \in {prog.words[counter + 1]} :
          \E d \in {Decode(instruction)} :
            IF Raises(instruction, d, register, ram)
            THEN /\ ret' = "raise"
                 /\ UNCHANGED <<register, counter, ram, frames, done, last>>
            ELSE /\ \E r \in {Execute(instruction, d, register, ram)} : Perform(r)
                 /\ Observe(prog, {c \in prog.calls : c.start = counter})

\* history: a step that executes the first instruction of a VM statement
\* notes where it is and the memory it finds
Enter(prog) ==
  mark' = IF iters' # iters /\ \E k \in DOMAIN prog.starts : prog.starts[k] = counter
          THEN [at |-> counter, ram |-> ram]
          ELSE mark

\* load(program)
Load(p) ==
  /\ pc = "idle"
  /\ Reset
  /\ program' = p
  /\ ret' = "none"
  /\ frames' = <<>>
  /\ done' = NoFrame
  /\ last' = NoFrame
  /\ mark' = NoMark
  /\ UNCHANGED <<pc, ref, assembler, translator>>

\* a call of step() by the program that owns the Computer
Step ==
  /\ pc = "idle"
  /\ StepBody(Loaded)
  /\ Enter(Loaded)
  /\ UNCHANGED <<pc, ref, assembler, translator>>

\* a call of run(): entering its loop
Run ==
  /\ pc = "idle"
  /\ pc' = "run"
  /\ UNCHANGED <<program, register, counter, ram, iters, finished, ret, frames, done,
                 last, ref, mark, assembler, translator>>

\* run's loop: leave when finished, else step; an exception leaves run.
\* history: r is what ref holds once run has returned
RunLoopTo(r) ==
  /\ pc = "run"
  /\ UNCHANGED <<assembler, translator>>
  /\ IF finished
     THEN /\ pc' = "idle"
          /\ ref' = r
          /\ UNCHANGED <<program, register, counter, ram, iters, finished, ret,
                         frames, done, last, mark>>
     ELSE /\ StepBody(Loaded)
          /\ Enter(Loaded)
          /\ pc' = IF ret' = "raise" THEN "idle" ELSE "run"
          /\ ref' = ref

RunLoop == RunLoopTo(ref)

Next ==
  \/ \E p \in DOMAIN Programs : Load(p)
  \/ Step
  \/ Run
  \/ RunLoop

Spec == Init /\ [][Next]_vars

\* run() is sequential code: its loop goes on until it is left
FairSpec == Spec /\ WF_vars(RunLoop)

\* history: the state run() returns in
Final ==
  [program |-> program, register |-> register, ram |-> ram, counter |-> counter]

\* run's loop, with the state of the first run() that returned kept in ref
RunLoopRecord == RunLoopTo(IF ref.program = 0 THEN Final ELSE ref)

\* the programs loaded again and again: the words written by hand, the
\* assembly programs, VmMain and VmRec
RerunPrograms ==
  {p \in DOMAIN Programs : VmOf[p] \in {<<>>, VmMain(7, 8), VmRec(RecDepth)}}

RerunNext ==
  \/ \E p \in RerunPrograms : Load(p)
  \/ Step
  \/ Run
  \/ RunLoopRecord

\* the Computer with the first completed run remembered
RerunSpec == Init /\ [][RerunNext]_vars

(***************************************************************************)
(* Assembler: the operations.  The caller reads the source a statement at  *)
(* a time, at most MaxLines statements taken from AsmStatements, and calls *)
(* assemble on what it has read.                                           *)
(***************************************************************************)
\* the longest input of assemble
MaxLines == 3

\* numbers, new names, a predefined name, labels (one named as a
\* predefined name is, one whose name begins with the marker), references
AsmStatements ==
  {<<"@n", 5>>, <<"@n", 32768>>,
   <<"@", "x">>, <<"@", "y">>, <<"@", "SP">>, <<"@", "L">>, <<"@", "_____L">>,
   <<"(", "L", ")">>, <<"(", "SP", ")">>, <<"(", "_____L", ")">>,
   <<"GOTO", "L">>, <<"GOTO", "_____L">>, <<"D", ">", "0", "?", "L">>,
   <<"D", "=", "A">>}

\* assemble_file: one more line of the source read
ReadLine(statement) ==
  /\ binary.err = "none"
  /\ Len(source) < MaxLines
  /\ source' = Append(source, statement)
  /\ UNCHANGED <<binary, listing, computer, translator>>

\* assemble(instructions), on the source read
Assemble ==
  /\ binary.err = "none"
  /\ binary' = assemble(source)
  /\ UNCHANGED <<source, listing, computer, translator>>

AsmNext ==
  \/ \E statement \in AsmStatements : ReadLine(statement)
  \/ Assemble

AsmSpec == Init /\ [][AsmNext]_vars

(***************************************************************************)
(* Translator: the operation.  translate is called again and again on one  *)
(* Translator instance, whose __counter and __current_function stay.       *)
(***************************************************************************)
\* translate is not called once __counter has reached this
MaxCounter == 24

\* a label and a goto outside any function, a function, a comparison, and
\* Main.main
VmSources ==
  {<<<<"label", "X">>, <<"goto", "X">>>>,
   <<<<"function", "F", 0>>, <<"push", "constant", 1>>, <<"return">>>>,
   <<<<"push", "constant", 1>>, <<"push", "constant", 2>>, <<"eq">>>>,
   VmMain(7, 8)}

\* translate(instructions)
Translate(instructions) ==
  /\ trcounter < MaxCounter
  /\ \E r \in {translate(instructions, trcounter, current_function)} :
       /\ trcounter' = r.counter
       /\ current_function' = r.fn
       /\ asmins' = [asm |-> r.asm, err |-> r.err]
  /\ vmsource' = instructions
  /\ UNCHANGED <<computer, assembler>>

TrNext == \E instructions \in VmSources : Translate(instructions)

TrSpec == Init /\ [][TrNext]_vars

(***************************************************************************)
(* disassemble: the operation.  One statement that assembles to a single   *)
(* word is assembled and the word is disassembled.                         *)
(***************************************************************************)
\* the most registers written in a register set
MaxRegs == 2

\* register sets as they can be written: any order, repetitions allowed
RegisterSets == UNION {[1..n -> Registers] : n \in 1..MaxRegs}

\* the right sides of copy, negate, negative and calculate
RightSides ==
  {<<a>> : a \in Registers \cup Constants01}
  \cup {<<sign, a>> : sign \in {"!", "-"}, a \in Registers \cup Constants01}
  \cup {<<a, op, b>> : a \in Registers, op \in BinaryOps, b \in Registers \cup Constants01}
  \cup {<<a, op, b>> : a \in Constants01, op \in BinaryOps, b \in Registers}

\* the statements that assemble to one word
SingleStatements ==
  {<<"@n", n>> : n \in {0, 5, 32767, 32768}}
  \cup {<<"JUMP">>}
  \cup {dst \o <<"=">> \o src : dst \in RegisterSets, src \in RightSides}

\* the source read: one statement
ReadStatement ==
  /\ binary.err = "none"
  /\ source = <<>>
  /\ \E statement \in SingleStatements : source' = <<statement>>
  /\ UNCHANGED <<binary, listing, computer, translator>>

\* disassemble(instruction), on the first word assemble returned
Disassemble ==
  /\ binary.err = ""
  /\ Len(binary.out) > 0
  /\ listing.err = "none"
  /\ listing' = disassemble(binary.out[1])
  /\ UNCHANGED <<source, binary, computer, translator>>

DisNext ==
  \/ ReadStatement
  \/ Assemble
  \/ Disassemble

DisSpec == Init /\ [][DisNext]_vars

(***************************************************************************)
(* main: the source is translated by a new Translator, the lines are       *)
(* assembled by a new Assembler, the words are loaded into a new Computer  *)
(* and run.  An exception ends main.                                       *)
(***************************************************************************)
\* main, up to the call of run
Main(k) ==
  /\ pc = "idle"
  /\ program = 0
  /\ asmins.err = "none"
  /\ vmsource' = Units[k].vm
  /\ trcounter' = Units[k].tr.counter
  /\ current_function' = Units[k].tr.fn
  /\ asmins' = [asm |-> Units[k].tr.asm, err |-> Units[k].tr.err]
  /\ UNCHANGED <<listing, ref, frames, done, last, mark>>
  /\ IF Units[k].tr.err # ""
     THEN /\ ret' = "raise"
          /\ UNCHANGED <<source, binary, program, register, counter, ram, iters,
                         finished, pc>>
     ELSE /\ source' = Units[k].tr.asm
          /\ binary' = Units[k].bin
          /\ IF Units[k].bin.err # ""
             THEN /\ ret' = "raise"
                  /\ UNCHANGED <<program, register, counter, ram, iters, finished, pc>>
             ELSE /\ Reset
                  /\ program' = Len(Programs) + k
                  /\ ret' = "none"
                  /\ pc' = "run"

MainNext ==
  \/ \E k \in DOMAIN Units : Main(k)
  \/ RunLoop

MainSpec == Init /\ [][MainNext]_vars

(***************************************************************************)
(* Properties.  Returned holds in the state a return sequence's JUMP       *)
(* leaves: done is the call it returned from, with the pointers at the     *)
(* first instruction of the call sequence (at), the callee's ARG (cell)    *)
(* and the value on top of the stack (val) at the first instruction of the *)
(* return sequence.                                                        *)
(***************************************************************************)
Returned == done.site >= 0

SP == Cell(ram, 0)

\* C1, as stated: when control is back after `call f n`, SP is the SP before
\* the call plus one, whatever n is
C1_StackBalancePlusOne == Returned => SP = done.at.sp + 1

\* C1, amended: when control is back after `call f n`, SP is the SP before
\* the call less the n arguments plus one: the arguments are replaced by the
\* return value
C1_StackBalance == Returned => SP = done.at.sp - done.nargs + 1

\* C1, witness: a nested call with two arguments has returned
C1_NestedCallReturned == Returned /\ done.nargs = 2 /\ Len(frames) > 0

\* C2: when a return sequence finishes, LCL, ARG, THIS and THAT are what they
\* were at the call, the return value is in the cell the callee's ARG pointed
\* to, SP is that cell's address plus one and the counter is the instruction
\* index of the call's return-address label
C2_ReturnRestores ==
  Returned =>
    /\ Cell(ram, 1) = done.at.lcl
    /\ Cell(ram, 2) = done.at.arg
    /\ Cell(ram, 3) = done.at.this
    /\ Cell(ram, 4) = done.at.that
    /\ Cell(ram, done.cell) = done.val
    /\ SP = done.cell + 1
    /\ counter = done.ret

\* C2, witness: a call without arguments, made from inside a callee, has
\* returned: the callee's ARG cell was the cell of the saved return address
C2_NoArgumentCallReturned ==
  /\ Returned
  /\ done.nargs = 0
  /\ done.cell = done.at.sp
  /\ Len(frames) > 1

\* the VM program loaded defines function Main.main
DefinesMain ==
  /\ program # 0
  /\ \E i \in DOMAIN VmOf[program] :
       VmOf[program][i][1] = "function" /\ VmOf[program][i][2] = "Main.main"

\* the VM program loaded is push constant 7, push constant 8, add
SumLoaded == program # 0 /\ VmOf[program] = VmSum(7, 8)

\* C3: the translated, assembled and loaded program push constant 7,
\* push constant 8, add, run to halt, leaves 15 in the cell at SP - 1
C3_SumOnTopOfStack == (SumLoaded /\ finished) => Cell(ram, SP - 1) = 7 + 8

\* the program has halted and its outermost call has returned
MainReturned == DefinesMain /\ finished /\ frames = <<>> /\ last.site >= 0

\* C4: a program that defines Main.main and returns from it was called from
\* the prologue with SP = 256 and no arguments, and halts with the counter
\* past the end, below the cap, with SP = 257 and the return value of
\* Main.main in RAM[256]
C4_MainReturnValue ==
  MainReturned =>
    /\ last.target = "Main.main"
    /\ last.nargs = 0
    /\ last.at.sp = 256
    /\ counter >= Len(Loaded.words)
    /\ ~CapReached
    /\ SP = 257
    /\ Cell(ram, 256) = last.val

\* C4, witness: Main.main of VmMain(7, 8) has returned 15 and the machine
\* has halted
C4_MainHalted == MainReturned /\ VmOf[program] = VmMain(7, 8) /\ Cell(ram, 256) = 15

\* the program loaded is the self-loop
LoopWords == assemble(AsmLoop).out
LoopLoaded == program # 0 /\ Loaded.words = LoopWords

\* C5: the self-loop never leaves the program, is never halted before
\* MAX_ITERS instructions have been executed, and never executes more
C5_HaltsAtCap ==
  LoopLoaded =>
    /\ counter < Len(Loaded.words)
    /\ iters <= MAX_ITERS
    /\ finished => iters = MAX_ITERS

\* C5, witness: run() has halted the self-loop
C5_LoopHalted == LoopLoaded /\ pc = "run" /\ finished /\ iters = MAX_ITERS

\* an instruction word whose fields the simulator knows
WellFormedWord(w) ==
  /\ Len(w) = 16
  /\ Decode(w).type = 1 =>
       /\ Decode(w).mode \in MODES
       /\ Decode(w).mode = 15 => CmpOk(Decode(w).res)

\* the programs of well-formed words
WellFormedPrograms ==
  {p \in DOMAIN Programs :
     \A i \in DOMAIN Programs[p].words : WellFormedWord(Programs[p].words[i])}

\* C6: never more than MAX_ITERS instructions are executed, a halted machine
\* has its counter at or past the end of the program or has reached the cap,
\* and run() on a program of well-formed words reaches the halted state
C6_RunHalts ==
  /\ [](iters <= MAX_ITERS)
  /\ [](finished => (counter >= Len(Loaded.words) \/ iters >= MAX_ITERS))
  /\ (pc = "run" /\ program \in WellFormedPrograms) ~> finished

\* C6, witness: run() has halted a program of well-formed words at the cap
\* and another one at its end
C6_HaltedAtCap ==
  /\ pc = "run" /\ program \in WellFormedPrograms /\ finished
  /\ iters = MAX_ITERS /\ counter < Len(Loaded.words)

\* a call of step(), by the owner of the Computer or by run()
StepCalled == Step \/ (RunLoop /\ ~finished)

\* step() has an instruction to execute
CanExecute ==
  ~finished /\ program # 0 /\ counter < Len(Loaded.words) /\ ~CapReached

\* C7, as stated: a call of step() on a machine that is not halted executes
\* one instruction, and it returns True exactly if a further step() would
\* execute another
C7_StepSaysMore ==
  [][(StepCalled /\ ~finished /\ program # 0) =>
       /\ iters' = iters + 1
       /\ ret' = "True" <=> (counter' < Len(Loaded.words) /\ iters' < MAX_ITERS)]_vars

\* C7, amended: a call of step() executes one instruction exactly if the
\* machine is not halted, the counter is inside the program and the cap is
\* not reached, and then returns True unless the instruction raises;
\* otherwise it executes nothing, leaves the machine halted and returns False
C7_StepSaysDone ==
  [][StepCalled =>
       /\ iters' = IF CanExecute THEN iters + 1 ELSE iters
       /\ ret' = "True" <=>
            (CanExecute /\ ~Raises(Loaded.words[counter + 1],
                                    Decode(Loaded.words[counter + 1]), register, ram))
       /\ ret' = "False" <=> (program # 0 /\ ~CanExecute)
       /\ ret' = "False" =>
            finished' /\ UNCHANGED <<register, ram, counter, iters>>]_vars

\* C7, witness: step() has returned True and the counter is at the end of
\* the program: the next step() executes nothing
C7_TrueAtTheEnd ==
  /\ program # 0 /\ ret = "True" /\ ~finished
  /\ counter >= Len(Loaded.words)

\* C8: right after load(p) the registers, the memory, the counter, the
\* iteration count and the halted flag are those of a new Computer, whatever
\* came before; and a halted machine is in the registers, memory and counter
\* in which the first completed run of the same program ended
C8_LoadResets ==
  /\ (program # 0 /\ ret = "none") =>
       /\ register = <<0, 0, 0, 0>>
       /\ ram = EmptyMap
       /\ counter = 0
       /\ iters = 0
       /\ ~finished
  /\ (finished /\ ref.program = program) =>
       /\ register = ref.register
       /\ ram = ref.ram
       /\ counter = ref.counter

\* C8, witness: a program that wrote to memory is halted again, in run(),
\* after an earlier run() of it has returned
C8_RunAgain ==
  /\ pc = "run" /\ finished /\ ref.program = program
  /\ ram # EmptyMap

\* the word step() executes next, and its decoding
Word == Loaded.words[counter + 1]
Decoded == Decode(Word)

\* the next word is a JMP that does not raise
JmpNext ==
  /\ CanExecute
  /\ Decoded.type = 1 /\ Decoded.mode = 15
  /\ ~Raises(Word, Decoded, register, ram)

\* the comparison of the next word, a JMP, holds
Holds ==
  Cmp(Getval(Decoded.arg1, register, ram), Getval(Decoded.arg2, register, ram),
      Decoded.res)

\* C9, as stated: a JMP whose comparison holds sets the counter to the value
\* of the operand its operand-A selector selects; one whose comparison does
\* not hold advances the counter by one
C9_JumpToOperand ==
  [][(StepCalled /\ JmpNext) =>
       counter' = IF Holds THEN Getval(Decoded.arg1, register, ram)
                  ELSE counter + 1]_vars

\* C9, amended: a JMP whose comparison holds sets the counter to the value
\* of register A, whatever its operand-A selector selects, if that value is
\* not negative; otherwise the counter advances by one
C9_JumpToRegisterA ==
  [][(StepCalled /\ JmpNext) =>
       counter' = IF Holds /\ register[RAM_REGISTER + 1] >= 0
                  THEN register[RAM_REGISTER + 1]
                  ELSE counter + 1]_vars

\* C9, witness: the if-goto of Lib.down, a JMP that compares D with 0, has
\* been taken: the counter is at the label, the value of A, and D holds
\* another value
C9_IfGotoTaken ==
  /\ program # 0 /\ VmOf[program] = VmRec(RecDepth)
  /\ ret = "True"
  /\ counter = Loaded.labelmap[make_label("Lib.down", "REC")]
  /\ register[RAM_REGISTER + 1] = counter
  /\ register[4] # counter

\* a word with the two bits before its last three cleared
ClearMask(w) == [w EXCEPT ![12] = 0, ![13] = 0]

\* C10: for a JMP word the two mask bits before the comparison code decide
\* neither whether the step succeeds nor whether the jump is taken: the word
\* behaves as the word with these two bits cleared
C10_MaskBitsIgnored ==
  (CanExecute /\ Decoded.type = 1 /\ Decoded.mode = 15) =>
    /\ Raises(Word, Decoded, register, ram)
         <=> Raises(ClearMask(Word), Decode(ClearMask(Word)), register, ram)
    /\ ~Raises(Word, Decoded, register, ram) =>
         Execute(Word, Decoded, register, ram).jump
           = Execute(ClearMask(Word), Decode(ClearMask(Word)), register, ram).jump

\* the next word is an operation other than JMP that does not raise
OpNext ==
  /\ CanExecute
  /\ Decoded.type = 1 /\ Decoded.mode # 15
  /\ ~Raises(Word, Decoded, register, ram)

\* the memory without the cell at list index w (a cell that holds 0 is not
\* kept in ram)
Others(mem, w) == [a \in DOMAIN mem \ {w} |-> mem[a]]

\* C11: a step of an operation other than JMP writes the one computed value
\* to every destination whose mask bit is set (M being the cell A addresses
\* before the step), leaves every other register and every other cell as it
\* was and advances the counter by one; a JMP changes no register and no cell
C11_FrameEffect ==
  [][/\ (StepCalled /\ OpNext) =>
          /\ \A i \in 1..4 :
               register'[i] = IF MaskBits(Decoded.res)[i] = 1
                              THEN Compute(Decoded.mode, Decoded.arg1, Decoded.arg2,
                                           register, ram)
                              ELSE register[i]
          /\ MaskBits(Decoded.res)[5] = 1 =>
               Cell(ram', ListIndex(register[RAM_REGISTER + 1]))
                 = Compute(Decoded.mode, Decoded.arg1, Decoded.arg2, register, ram)
          /\ IF MaskBits(Decoded.res)[5] = 1
             THEN Others(ram', ListIndex(register[RAM_REGISTER + 1]))
                    = Others(ram, ListIndex(register[RAM_REGISTER + 1]))
             ELSE ram' = ram
          /\ counter' = counter + 1
     /\ (StepCalled /\ JmpNext) => (register' = register /\ ram' = ram)]_vars

\* C11, witness: the word of RawOps that writes A, B, C, D and M has been
\* executed: the four registers hold 4 and so does cell 3, which A addressed
C11_AllWritten ==
  /\ program # 0 /\ Loaded.words = RawOps
  /\ ret = "True" /\ counter = 2
  /\ register = <<4, 4, 4, 4>>
  /\ Cell(ram, 3) = 4 /\ Cell(ram, 4) = 0

\* a value of 16 bits, read as unsigned or as two's complement
SixteenBit(v) == v >= -32768 /\ v <= 65535

\* C12: every register and every memory cell holds a 16-bit value: a result
\* outside the range is wrapped, never stored as it is
C12_SixteenBitValues ==
  /\ \A i \in 1..4 : SixteenBit(register[i])
  /\ \A a \in DOMAIN ram : SixteenBit(ram[a])

\* C13: in a halted state the iteration count tells the cause of the halt:
\* it is MAX_ITERS exactly if the cap stopped the run, and never MAX_ITERS
\* when the counter has passed the end of the program
C13_CauseFromIters ==
  finished => (iters = MAX_ITERS <=> counter < Len(Loaded.words))

(***************************************************************************)
(* Properties of assemble.  In the state an assemble call leaves, source   *)
(* is its input and binary what it gave.                                   *)
(***************************************************************************)
\* assemble has returned words
Assembled == binary.err = ""

\* C14: every string assemble returns is 16 characters long, each 0 or 1
C14_SixteenCharacters ==
  Assembled =>
    \A i \in 1..Len(binary.out) :
      /\ Len(binary.out[i]) = 16
      /\ \A j \in 1..Len(binary.out[i]) : binary.out[i][j] \in {0, 1}

\* the statements of the source that define a label
Definitions == {i \in 1..Len(source) : source[i][1] = "("}

\* a name is defined by two statements
DefinedTwice ==
  \E i, j \in Definitions : i < j /\ source[i][2] = source[j][2]

\* assemble has been called on the source
Called == binary.err # "none"

\* C15: when a label name is defined by two statements, assemble fails with
\* the duplicate-label error and returns nothing
C15_DuplicateLabel ==
  (Called /\ DefinedTwice) => (binary.err = "already defined" /\ binary.out = <<>>)

\* C15, witness: assemble has failed on a source that defines a name twice,
\* with another statement between the definitions
C15_DuplicateRejected ==
  /\ Len(source) = 3 /\ source[1] = source[3] /\ source[1][1] = "("
  /\ source[2][1] # "("
  /\ binary.err = "already defined"

\* the names the source defines as labels
Defined == {source[i][2] : i \in Definitions}

\* the statements that branch to a label, and the label each names
Branches ==
  {i \in 1..Len(source) : source[i][1] = "GOTO" \/ (Len(source[i]) = 5 /\ source[i][4] = "?")}
Target(i) == source[i][Len(source[i])]

\* C16: when a GOTO or a conditional branch names a label that no statement
\* defines (and no label is defined twice), assemble fails with the
\* label-not-defined error and returns nothing
C16_UndefinedLabel ==
  (Called /\ ~DefinedTwice /\ \E i \in Branches : Target(i) \notin Defined)
    => (binary.err = "not defined" /\ binary.out = <<>>)

\* the statements that refer to a label the source defines, by @L, GOTO L or
\* a conditional branch
References ==
  {i \in 1..Len(source) : source[i][1] = "@" /\ source[i][2] \in Defined}
  \cup {i \in Branches : Target(i) \in Defined}

\* the statement that defines the label name
Definition(name) == CHOOSE j \in Definitions : source[j][2] = name

\* C17: every reference to a defined label assembles to an immediate word
\* whose value is the index of the first word emitted after the label's
\* definition, wherever the reference stands, and the label is given no
\* variable address
C17_LabelResolution ==
  Assembled =>
    /\ Len(binary.out) = Address(source, Len(source) + 1)
    /\ \A i \in References :
         /\ Int2(binary.out[Address(source, i) + 1])
              = Address(source, Definition(Target(i)))
         /\ Target(i) \in DOMAIN binary.varlookup => Target(i) \in DOMAIN PredefinedVars

\* the statements @name, and the value of the word each assembles to
Uses == {i \in 1..Len(source) : source[i][1] = "@"}
ValueAt(i) == Int2(binary.out[Address(source, i) + 1])

\* a name that is neither predefined nor a label of the source
IsNew(name) == name \notin DOMAIN PredefinedVars /\ name \notin Defined

\* the first statement that uses the name of statement i
First(i) ==
  CHOOSE j \in Uses :
    /\ source[j][2] = source[i][2]
    /\ \A k \in Uses : source[k][2] = source[i][2] => j <= k

\* the number of new names seen before the name of statement i is
Rank(i) ==
  Cardinality({source[j][2] : j \in {k \in Uses : k < First(i) /\ IsNew(source[k][2])}})

\* C18, as stated: the k-th new name gets address 16 + k at each of its
\* uses, and a predefined name always yields its fixed address
C18_Allocation ==
  Assembled =>
    /\ Len(binary.out) = Address(source, Len(source) + 1)
    /\ \A i \in Uses :
         /\ IsNew(source[i][2]) => ValueAt(i) = STATIC + Rank(i)
         /\ source[i][2] \in DOMAIN PredefinedVars
              => ValueAt(i) = PredefinedVars[source[i][2]]

\* C18, amended: the k-th new name gets address 16 + k at each of its uses,
\* and a predefined name yields its fixed address unless the source defines
\* a label of that name
C18_AllocationUnlessLabel ==
  Assembled =>
    /\ Len(binary.out) = Address(source, Len(source) + 1)
    /\ \A i \in Uses :
         /\ IsNew(source[i][2]) => ValueAt(i) = STATIC + Rank(i)
         /\ (source[i][2] \in DOMAIN PredefinedVars /\ source[i][2] \notin Defined)
              => ValueAt(i) = PredefinedVars[source[i][2]]

\* C18, witness: a new name, a second one, and the first one again have
\* been assembled to 16, 17 and 16
C18_TwoNames ==
  /\ Assembled /\ Len(source) = 3 /\ Uses = {1, 2, 3}
  /\ source[1] = source[3] /\ source[1] # source[2]
  /\ IsNew(source[1][2]) /\ IsNew(source[2][2])
  /\ ValueAt(1) = STATIC /\ ValueAt(2) = STATIC + 1 /\ ValueAt(3) = STATIC

(***************************************************************************)
(* Properties of translate.  In the state a translate call leaves,         *)
(* vmsource is its input and asmins what it returned.                      *)
(***************************************************************************)
\* C19: translate returns what it returns on a new Translator, whatever
\* calls were made on the instance before
C19_FreshPerRun ==
  asmins.err = "" => asmins.asm = translate(vmsource, 0, "").asm

(***************************************************************************)
(* Properties of disassemble.  In the state a disassemble call leaves,     *)
(* source holds the statement, binary its word and listing the line.       *)
(***************************************************************************)
\* disassemble has returned a line for the one statement of the source
Listed == Len(source) = 1 /\ listing.err = ""

\* C20, as stated: the line disassemble returns for the word of a statement
\* is the statement
C20_RoundTrip == Listed => listing.text = source[1]

\* the place of a register in ABCDM
Place(r) == CHOOSE i \in 1..5 : <<"A", "B", "C", "D", "M">>[i] = r

\* the statement writes its destination registers in the order of ABCDM,
\* none twice (a statement without destination does)
InOrder(statement) ==
  \A i \in 1..EqualsAt(statement, 1) - 2 :
    Place(statement[i]) < Place(statement[i + 1])

\* the statement with its destination registers put in the order of ABCDM,
\* each once
Ordered(statement) ==
  DisRes([i \in 1..5 |->
            IF \E j \in 1..EqualsAt(statement, 1) - 1 : Place(statement[j]) = i
            THEN 1 ELSE 0])
  \o SubSeq(statement, EqualsAt(statement, 1), Len(statement))

\* C20, amended: the line is the statement for a numeric immediate and for a
\* copy, negate, negative or calculate that writes its registers in the
\* order of ABCDM, none twice; for another register set it is the statement
\* with the registers in that order; for JUMP it is JMP
C20_RoundTripInOrder ==
  Listed =>
    IF source[1] = <<"JUMP">> THEN listing.text = <<"JMP">>
    ELSE IF source[1][1] = "@n" THEN listing.text = source[1]
    ELSE /\ InOrder(source[1]) => listing.text = source[1]
         /\ listing.text = Ordered(source[1])

\* C20, witness: a calculate that writes two registers in order has been
\* assembled and disassembled
C20_CalculateListed ==
  /\ Listed
  /\ source[1] # <<"JUMP">> /\ source[1][1] # "@n"
  /\ EqualsAt(source[1], 1) = 3 /\ Len(source[1]) = 6
  /\ InOrder(source[1])
  /\ listing.text = source[1]

(***************************************************************************)
(* Properties of a taken jump                                              *)
(***************************************************************************)
\* C26: a JMP whose comparison holds (the unconditional code included) sets
\* the counter to the value register A held before the step, whatever that
\* value is: zero, beyond the end of the program, or negative
C26_TakenJumpToA ==
  [][(StepCalled /\ JmpNext /\ Holds) => counter' = register[RAM_REGISTER + 1]]_vars

(***************************************************************************)
(* Properties of an operation that writes both A and M                     *)
(***************************************************************************)
\* the next word is an operation whose mask selects both A and M
WritesAM == OpNext /\ MaskBits(Decoded.res)[1] = 1 /\ MaskBits(Decoded.res)[5] = 1

\* C28: an operation whose mask selects both A and M reads its operands
\* first, writes the cell that A addresses before the instruction and then
\* overwrites A; the cell that the new value of A addresses, if it is
\* another one, is not written
C28_CellOfOldA ==
  [][(StepCalled /\ WritesAM) =>
       \E val \in {Compute(Decoded.mode, Decoded.arg1, Decoded.arg2, register, ram)} :
         /\ register'[RAM_REGISTER + 1] = val
         /\ Cell(ram', ListIndex(register[RAM_REGISTER + 1])) = val
         /\ ListIndex(val) # ListIndex(register[RAM_REGISTER + 1]) =>
              Cell(ram', ListIndex(val)) = Cell(ram, ListIndex(val))]_vars

\* C28, witness: the AM=M+1 of a push in a translated program has been
\* executed: SP and A hold the new stack pointer, and the cell it addresses
\* is still empty
C28_PushAdvanced ==
  /\ program # 0 /\ VmOf[program] # <<>>
  /\ ret = "True" /\ counter > 0
  /\ Decode(Loaded.words[counter]).type = 1
  /\ Decode(Loaded.words[counter]).mode = 10
  /\ Decode(Loaded.words[counter]).res = 17
  /\ register[RAM_REGISTER + 1] = Cell(ram, 0)
  /\ register[RAM_REGISTER + 1] > STACK
  /\ Cell(ram, register[RAM_REGISTER + 1]) = 0

(***************************************************************************)
(* Properties of the code of one VM statement.  main has translated        *)
(* vmsource and loaded its words; statement k is vmsource[k], and its code *)
(* runs from StartOf(k) to EndOf(k), where the code of the next begins.    *)
(***************************************************************************)
\* the first instruction of the code of statement k, and the one after its
\* last
StartOf(k) == Loaded.starts[k + 2]
EndOf(k) == Loaded.starts[k + 3]

\* control has entered the code of statement k at its first instruction and
\* has now left it at its end, no other statement entered in between (a
\* statement without code is left where it is entered)
Through(k) ==
  /\ program > Len(Programs)
  /\ ret # "raise"
  /\ counter = EndOf(k)
  /\ StartOf(k) = EndOf(k) \/ mark.at = StartOf(k)

\* the memory as it was when the code of statement k was entered
Before(k) == IF StartOf(k) = EndOf(k) THEN ram ELSE mark.ram

\* the address of offset i of a segment: a base pointer plus i for local,
\* argument, this and that; the static variables start at STATIC, pointer
\* is THIS and THAT, temp the cells after them
SegmentAddress(seg, i, mem) ==
  CASE seg = "local" -> Cell(mem, 1) + i
    [] seg = "argument" -> Cell(mem, 2) + i
    [] seg = "this" -> Cell(mem, 3) + i
    [] seg = "that" -> Cell(mem, 4) + i
    [] seg = "static" -> STATIC + i
    [] seg = "pointer" -> 3 + i
    [] seg = "temp" -> 5 + i

\* the value of offset i of a segment: the literal i for constant
SegmentValue(seg, i, mem) ==
  IF seg = "constant" THEN i ELSE Cell(mem, SegmentAddress(seg, i, mem))

\* C21: the code of `push seg i` increases SP by one and stores the value of
\* the segment location in the cell that was the stack top; the code of
\* `pop seg i`, seg other than constant, decreases SP by one and stores the
\* popped value at the segment location
C21_PushPop ==
  \A k \in DOMAIN vmsource :
    Through(k) =>
      /\ vmsource[k][1] = "push" =>
           /\ SP = Cell(Before(k), 0) + 1
           /\ Cell(ram, Cell(Before(k), 0))
                = SegmentValue(vmsource[k][2], vmsource[k][3], Before(k))
      /\ (vmsource[k][1] = "pop" /\ vmsource[k][2] # "constant") =>
           /\ SP = Cell(Before(k), 0) - 1
           /\ Cell(ram, SegmentAddress(vmsource[k][2], vmsource[k][3], Before(k)))
                = Cell(Before(k), Cell(Before(k), 0) - 1)

\* the operators that compute a value, and the mode of the operation each
\* stands for
Arithmetic ==
  "add" :> 10 @@ "sub" :> 11 @@ "mul" :> 12 @@ "div" :> 13 @@ "rem" :> 14 @@
  "and" :> 2 @@ "or" :> 3 @@ "xor" :> 4 @@ "neg" :> 9 @@ "not" :> 1

\* translate has been called on a source with none but function, call,
\* return, push and pop statements and operators that compute a value
OnlyArithmetic ==
  /\ asmins.err # "none"
  /\ \A k \in DOMAIN vmsource :
       vmsource[k][1] \in {"function", "call", "return", "push", "pop"}
                          \cup DOMAIN Arithmetic

\* C22: translate accepts add, sub, mul, div, rem, and, or, xor, neg and not;
\* the code of an operator with two operands replaces x (below) and y (top)
\* by x op y and decreases SP by one; the code of neg and not replaces y by
\* op(y) and leaves SP as it is
C22_Operators ==
  /\ OnlyArithmetic => asmins.err = ""
  /\ \A k \in DOMAIN vmsource :
       (Through(k) /\ vmsource[k][1] \in DOMAIN Arithmetic) =>
         IF Arithmetic[vmsource[k][1]] \in UNARY
         THEN /\ SP = Cell(Before(k), 0)
              /\ Cell(ram, SP - 1)
                   = Operate(Arithmetic[vmsource[k][1]], Cell(Before(k), SP - 1), 0)
         ELSE /\ SP = Cell(Before(k), 0) - 1
              /\ Cell(ram, SP - 1)
                   = Operate(Arithmetic[vmsource[k][1]],
                             Cell(Before(k), SP - 1), Cell(Before(k), SP))

\* the comparison operators, and the comparison each stands for
Comparing ==
  "eq" :> 1 @@ "lt" :> 2 @@ "le" :> 3 @@ "ne" :> 5 @@ "ge" :> 6 @@ "gt" :> 7

\* the word whose bits are all ones
AllOnes == Invert(0)

\* C23: the code of eq, lt, gt, ne, le or ge pops x (below) and y (top) and
\* pushes one word, the all-ones word if x cmp y holds and 0 if not, so that
\* SP is one less; from its first instruction on, control stays inside the
\* code until it continues at the statement that follows
C23_Comparisons ==
  \A k \in DOMAIN vmsource :
    (program > Len(Programs) /\ vmsource[k][1] \in DOMAIN Comparing) =>
      /\ mark.at = StartOf(k) => (counter >= StartOf(k) /\ counter <= EndOf(k))
      /\ Through(k) =>
           /\ SP = Cell(Before(k), 0) - 1
           /\ Cell(ram, SP - 1)
                = IF Cmp(Cell(Before(k), SP - 1), Cell(Before(k), SP),
                         Comparing[vmsource[k][1]])
                  THEN AllOnes ELSE 0
           /\ Cell(ram, SP) = Cell(Before(k), SP)

\* C23, witness: the code of le has been executed on two equal operands and
\* has left the all-ones word in their place
C23_EqualIsLessOrEqual ==
  \E k \in DOMAIN vmsource :
    /\ Through(k)
    /\ vmsource[k] = <<"le">>
    /\ Cell(Before(k), SP - 1) = 3 /\ Cell(Before(k), SP) = 3
    /\ Cell(ram, SP - 1) = AllOnes
    /\ SP = Cell(Before(k), 0) - 1

\* translate has been called on a source with none but function, call,
\* return, push, pop and output statements
OnlyOutput ==
  /\ asmins.err # "none"
  /\ \A k \in DOMAIN vmsource :
       vmsource[k][1] \in {"function", "call", "return", "push", "pop", "output"}

\* C25: translate accepts `output seg i` for every segment, and its code
\* leaves the value of the segment location (the literal i for constant) in
\* the output cell, and SP and every cell of the stack as they were
C25_Output ==
  /\ OnlyOutput => asmins.err = ""
  /\ \A k \in DOMAIN vmsource :
       (Through(k) /\ vmsource[k][1] = "output") =>
         /\ Cell(ram, OUTPUT) = SegmentValue(vmsource[k][2], vmsource[k][3], Before(k))
         /\ SP = Cell(Before(k), 0)
         /\ \A a \in STACK..(SP - 1) : Cell(ram, a) = Cell(Before(k), a)

(***************************************************************************)
(* Properties of labels.  A statement belongs to the function of the last  *)
(* function statement before it.                                           *)
(***************************************************************************)
\* the function statement k belongs to, "" if none
RECURSIVE FunctionOf(_)
FunctionOf(k) ==
  IF k < 1 THEN ""
  ELSE IF vmsource[k][1] = "function" THEN vmsource[k][2]
  ELSE FunctionOf(k - 1)

\* the label statements, and the function statements
LabelStatements == {k \in DOMAIN vmsource : vmsource[k][1] = "label"}
FunctionStatements == {k \in DOMAIN vmsource : vmsource[k][1] = "function"}

\* the statement `label L` of the function statement k belongs to, L being
\* the label statement k names
LabelOf(k) ==
  CHOOSE j \in LabelStatements :
    vmsource[j][2] = vmsource[k][2] /\ FunctionOf(j) = FunctionOf(k)

\* translate has accepted a source whose functions have different names
\* and whose labels are all inside functions, none twice in one function
WellLabelled ==
  /\ asmins.err = ""
  /\ \A j, k \in FunctionStatements : vmsource[j][2] = vmsource[k][2] => j = k
  /\ \A k \in LabelStatements : FunctionOf(k) # ""
  /\ \A j, k \in LabelStatements :
       (vmsource[j][2] = vmsource[k][2] /\ FunctionOf(j) = FunctionOf(k)) => j = k

\* the code of the goto or if-goto statement k has been entered at its first
\* instruction and control has now left its instructions
Left(k) ==
  /\ program > Len(Programs)
  /\ ret # "raise"
  /\ vmsource[k][1] \in {"goto", "if-goto"}
  /\ mark.at = StartOf(k)
  /\ counter < StartOf(k) \/ counter >= EndOf(k)

\* the jump of statement k is taken: it is a goto, or the if-goto found a
\* value other than 0 on the stack
Taken(k) ==
  vmsource[k][1] = "goto" \/ Cell(mark.ram, Cell(mark.ram, 0) - 1) # 0

\* control goes from the goto or if-goto statement k to the label of its
\* own function if the jump is taken, and on to the next statement if not
ToOwnLabel(k) ==
  Left(k) => counter = IF Taken(k) THEN StartOf(LabelOf(k)) ELSE EndOf(k)

\* C24, as stated: labels are scoped to the enclosing function, so that
\* functions with different names may define the same label: assembly
\* raises no duplicate-label error, and a goto or a taken if-goto goes to
\* the label of its own function
C24_LabelsScoped ==
  WellLabelled =>
    /\ binary.err # "already defined"
    /\ \A k \in DOMAIN vmsource : ToOwnLabel(k)

\* no function has the name that a label has in the assembly: the name of
\* the label's function, a dot, and the label
NoFunctionNamedAsLabel ==
  \A j \in FunctionStatements : \A k \in LabelStatements :
    vmsource[j][2] # make_label(FunctionOf(k), vmsource[k][2])

\* C24, amended: the same, for a source in which no function has the name
\* F.L of a label L of a function F
C24_LabelsScopedUnlessFunction ==
  (WellLabelled /\ NoFunctionNamedAsLabel) =>
    /\ binary.err # "already defined"
    /\ \A k \in DOMAIN vmsource : ToOwnLabel(k)

\* C24, witness: Lib.f and Lib.g each define L, and the if-goto L of Lib.g
\* has been taken: control is at the L of Lib.g, which is not the L of Lib.f
C24_BackToOwnLabel ==
  \E k \in DOMAIN vmsource :
    /\ WellLabelled /\ NoFunctionNamedAsLabel
    /\ Left(k) /\ Taken(k)
    /\ vmsource[k] = <<"if-goto", "L">> /\ FunctionOf(k) = "Lib.g"
    /\ counter = StartOf(LabelOf(k))
    /\ counter = Loaded.labelmap["Lib.g.L"]
    /\ counter # Loaded.labelmap["Lib.f.L"]

(***************************************************************************)
(* Properties of the labels translate makes up.  In the lines translate    *)
(* returns, the label of a label statement and the label of a function     *)
(* follow their comment; the labels translate makes up follow code: BEGIN  *)
(* and END of a comparison, and the return-address label of a call.        *)
(***************************************************************************)
\* main has just translated, and assembled: nothing has been executed
JustTranslated == asmins.err = "" /\ iters = 0

\* the lines that define a label translate made up; the last line is the
\* label of the end of the program
Synthetic ==
  {i \in 2..Len(asmins.asm) - 1 :
     asmins.asm[i][1] = "(" /\ asmins.asm[i - 1][1] # "#"}

\* C27: within one translate call the labels translate makes up, BEGIN and
\* END of every comparison and the return-address label of every call, the
\* call of the prologue included, are pairwise distinct: no two of them make
\* a duplicate label for the assembler
C27_SyntheticDistinct ==
  JustTranslated =>
    \A i, j \in Synthetic : asmins.asm[i][2] = asmins.asm[j][2] => i = j

\* C27, witness: a source with label statements, two comparisons with the
\* same operator and two calls has been translated
C27_Mixed ==
  /\ JustTranslated
  /\ LabelStatements # {}
  /\ Cardinality({k \in DOMAIN vmsource : vmsource[k] = <<"gt">>}) = 2
  /\ Cardinality({k \in DOMAIN vmsource : vmsource[k][1] = "call"}) = 2
  /\ Cardinality(Synthetic) = 7

(***************************************************************************)
(* Properties of the jump of a call                                        *)
(***************************************************************************)
\* C29: the JUMP of every call sequence, the one of the prologue included,
\* goes to the instruction index of the label that the function statement
\* of the called function defines; a program that calls a function without
\* definition does not get as far as being loaded and run
C29_CallToFunction ==
  [][\A c \in Loaded.calls :
       (StepCalled /\ CanExecute /\ counter = c.ret - 1) =>
         /\ c.target \in DOMAIN Loaded.labelmap
         /\ counter' = Loaded.labelmap[c.target]]_vars

====
